---- MODULE Spec2Model ----
(***************************************************************************)
(* Model of the resumable download engine of rongyok-video-downloader      *)
(* (src/downloader.py) together with the driver steps that touch the same  *)
(* output directory (src/cli.py merge_downloaded).                         *)
(*                                                                         *)
(* Sizes are counted in blocks of one mebibyte: CHUNK_SIZE is one block,   *)
(* a file is a sequence of blocks, and iter_content hands out one block    *)
(* (or an empty chunk) at a time.  Block number i of episode e as served   *)
(* by the source is the integer 10*e + i; the block 0 is a block that the  *)
(* source never serves (a leftover of an earlier run on the same dir).     *)
(***************************************************************************)
EXTENDS Integers, Sequences, FiniteSets, TLC

\* ---------------------------------------------------------------- bounds
MaxEpisode == 2
\* number of blocks of every episode on the server
ServerLen == 2
\* download_episode calls per behaviour
MaxCalls == 2
\* characters of a selection string
MaxStrLen == 5
\* the largest total episode count a selection is parsed against
MaxTotal == 3
\* driver loops (download_all, cli runs) per behaviour
MaxRuns == 2
\* control operations (pause, resume, cancel, reset) per behaviour
MaxOps == 3
\* the highest episode number artifact names are studied for
MaxNumber == 101
\* the blocks of a resource long enough for a checkpoint inside a transfer
LongLen == 6
\* the most download threads a GUI run starts
MaxThreads == 3
\* the most VideoDownloader instances a GUI run constructs
MaxInstances == 4

\* ------------------------------------------------------ program constants
\* VideoDownloader.CHUNK_SIZE, in blocks of 1024 * 1024 bytes
CHUNK_SIZE == 1
\* the factor of "self.CHUNK_SIZE * 5"
CHECKPOINT_CHUNKS == 5
HTTP_OK == 200
HTTP_PARTIAL == 206

Episodes == 1..MaxEpisode

\* Optional values: None, or a one-element tuple holding the value.
None == <<>>
Some(x) == <<x>>
IsSome(o) == o # <<>>
Get(o) == o[1]

Range(s) == {s[i] : i \in DOMAIN s}
Contains(s, x) == \E i \in DOMAIN s : s[i] = x

\* block i of episode e on the source
Block(e, i) == 10 * e + i
\* a block the source never serves
StaleBlock == Block(0, 0)

\* s without its first n elements
Drop(s, n) == SubSeq(s, n + 1, Len(s))

\* sorted(selected_episodes)
sorted(s) == SortSeq(s, LAMBDA a, b : a < b)

\* the selections init_state is called with
Selections == {<<1>>, <<1, 2>>, <<2, 1>>}

VARIABLES
    part,       \* episode -> the partial artifact ep_NN.mp4.part (optional file)
    final,      \* episode -> the final artifact ep_NN.mp4 (optional file)
    state,      \* VideoDownloader.state (optional DownloadState)
    snapshot,   \* download_state.json (optional JSON document)
    paused,     \* VideoDownloader._paused
    cancelled,  \* VideoDownloader._cancelled
    pc,         \* position of the download_episode call
    loc,        \* local variables of the download_episode call
    result,     \* how the last download_episode call ended
    calls,      \* number of download_episode calls so far
    hist,       \* history of the running call (what it started from, what it did)
    sess,       \* history of the session since init_state
    size,       \* episode -> number of blocks of the episode on the source
    drv,        \* the driver loop that is running (download_all, cli)
    app         \* the function application under study (load, save, parse)

vars == <<part, final, state, snapshot, paused, cancelled, pc, loc, result,
          calls, hist, sess, size, drv, app>>

\* the content the source serves for an episode
ServerContent(e) == [i \in 1..size[e] |-> Block(e, i)]

\* ------------------------------------------------------------ data model
\* DownloadProgress(episode, downloaded_bytes, total_bytes, completed)
DownloadProgress(ep, down, total) ==
    [cls |-> "DownloadProgress", episode |-> ep, downloaded_bytes |-> down,
     total_bytes |-> total, completed |-> FALSE]

\* dataclasses.asdict on a DownloadProgress: a plain mapping
ProgressDict(p) ==
    [episode |-> p.episode, downloaded_bytes |-> p.downloaded_bytes,
     total_bytes |-> p.total_bytes, completed |-> p.completed]

\* DownloadState.save: json.dump(asdict(self))
asdict(s) ==
    [selected_episodes |-> s.selected_episodes,
     completed_episodes |-> s.completed_episodes,
     current_episode |-> s.current_episode,
     current_progress |-> IF IsSome(s.current_progress)
                          THEN Some(ProgressDict(Get(s.current_progress)))
                          ELSE None]

\* ---- DownloadState.load, on whatever the snapshot file holds
\* the fields of the dataclasses that have a default value
ProgressDefaults == [completed |-> FALSE]
StateDefaults == [current_episode |-> None, current_progress |-> None]
ProgressFields == {"episode", "downloaded_bytes", "total_bytes", "completed"}
StateFields == {"selected_episodes", "completed_episodes", "current_episode",
                "current_progress"}

\* a call C(**kw) of a dataclass constructor is accepted (no TypeError) when
\* kw names only fields of C and names every field that has no default
Accepts(fields, defaults, kw) ==
    /\ DOMAIN kw \subseteq fields
    /\ (fields \ DOMAIN defaults) \subseteq DOMAIN kw

\* the field values of the instance C(**kw) builds
Instance(fields, defaults, kw) ==
    [k \in fields |-> IF k \in DOMAIN kw THEN kw[k] ELSE defaults[k]]

\* "if data.get('current_progress')": neither null nor an empty mapping
truthy(p) == IsSome(p) /\ DOMAIN Get(p) # {}

\* mutant: the mapping read from the file is kept as it is
DownloadProgress_raw(kw) == kw

\* DownloadProgress(**data['current_progress'])
DownloadProgress_from(kw) ==
    [cls |-> "DownloadProgress"] @@ Instance(ProgressFields, ProgressDefaults, kw)

\* what a call of load gives: a value returned, or an exception raised
Returned(v) == [raised |-> FALSE, value |-> v]
Raised == [raised |-> TRUE, value |-> None]

\* the snapshot file: absent ("missing"), not JSON ("text"), a JSON value
\* that is no object ("array"), or a JSON object (doc: key -> value)
NoFile == [kind |-> "missing"]
JsonObject(d) == [kind |-> "object", doc |-> d]

\* DownloadState.load(path), lines 47-54
DownloadState_load(f) ==
    CASE f.kind \in {"missing", "text"} ->
           \* except (FileNotFoundError, json.JSONDecodeError): return None
           Returned(None)
      [] f.kind = "array" ->
           \* data.get: AttributeError, which the except clause does not name
           Raised
      [] OTHER ->
           LET data == f.doc
               p == IF "current_progress" \in DOMAIN data
                    THEN data.current_progress ELSE None
           IN IF truthy(p) /\ ~Accepts(ProgressFields, ProgressDefaults, Get(p))
              THEN Raised
              ELSE LET data2 == IF truthy(p)
                                THEN [data EXCEPT !.current_progress =
                                         Some(DownloadProgress_from(Get(p)))]
                                ELSE data
                   IN IF Accepts(StateFields, StateDefaults, data2)
                      THEN Returned(Some(Instance(StateFields, StateDefaults,
                                                  data2)))
                      ELSE Raised

\* DownloadState.load on the snapshot the program itself wrote (or on none)
load(doc) ==
    IF IsSome(doc) THEN DownloadState_load(JsonObject(Get(doc))).value ELSE None

\* mutant: the snapshot file is never written
SavedState_kept(s, old) == old

\* VideoDownloader._save_state: writes only when a state is loaded
SavedState(s, old) == IF IsSome(s) THEN Some(asdict(Get(s))) ELSE old

NoLoc == [episode |-> 0, downloaded_bytes |-> 0, total_bytes |-> 0,
          status_code |-> 0, bytes_since_last_update |-> 0,
          body |-> <<>>, chunk |-> <<>>]

NoHist == [part0 |-> None, final0 |-> None, state0 |-> None, range |-> 0,
           written |-> <<>>, streamed |-> <<>>, ended |-> "no",
           fault |-> "none", cancelSeen |-> FALSE, declared |-> 0,
           progress0 |-> None, status |-> 0, snapshot0 |-> None,
           opened |-> FALSE]

NoSess == [renamed |-> {}, returnedTrue |-> {}, cleaned |-> {}, produced |-> {}]

\* no driver loop is running
NoDrv == [loop |-> "none", at |-> "none", episodes |-> <<>>, i |-> 0,
          successful |-> 0, failed |-> 0, resolved |-> <<>>,
          handled |-> <<>>, calls0 |-> 0, all_done0 |-> FALSE,
          broke |-> FALSE, cancel_seen |-> FALSE, run |-> 0,
          merge_input |-> <<>>, merged |-> FALSE]

\* no function application is under study
NoApp == [op |-> "none"]

\* an output directory with a leftover partial artifact of episode 1, no
\* snapshot, and a VideoDownloader just constructed on it
FirstRun ==
    /\ part = [e \in Episodes |-> IF e = 1 THEN Some(<<StaleBlock>>) ELSE None]
    /\ final = [e \in Episodes |-> None]
    /\ state = None
    /\ snapshot = None
    /\ paused = FALSE
    /\ cancelled = FALSE
    /\ pc = "idle"
    /\ loc = NoLoc
    /\ result = "none"
    /\ calls = 0
    /\ hist = NoHist
    /\ sess = NoSess
    /\ size = [e \in Episodes |-> ServerLen]

Init ==
    /\ FirstRun
    /\ drv = NoDrv
    /\ app = NoApp

\* ---------------------------------------------------------- control plane
\* mutant: pausing withdraws a cancellation
pause_uncancels ==
    /\ paused' = TRUE
    /\ cancelled' = FALSE
    /\ UNCHANGED <<part, final, state, snapshot, pc, loc, result, calls, hist,
                   sess, size>>

pause ==
    /\ paused' = TRUE
    /\ UNCHANGED <<part, final, state, snapshot, cancelled, pc, loc, result,
                   calls, hist, sess, size>>

resume ==
    /\ paused' = FALSE
    /\ UNCHANGED <<part, final, state, snapshot, cancelled, pc, loc, result,
                   calls, hist, sess, size>>

cancel ==
    /\ cancelled' = TRUE
    /\ UNCHANGED <<part, final, state, snapshot, paused, pc, loc, result,
                   calls, hist, sess, size>>

reset ==
    /\ paused' = FALSE
    /\ cancelled' = FALSE
    /\ UNCHANGED <<part, final, state, snapshot, pc, loc, result, calls,
                   hist, sess, size>>

\* ------------------------------------------------------------ the driver
\* VideoDownloader.init_state
init_state(sel) ==
    /\ pc = "idle"
    /\ state' = Some([selected_episodes |-> sorted(sel),
                      completed_episodes |-> <<>>,
                      current_episode |-> None,
                      current_progress |-> None])
    /\ snapshot' = SavedState(state', snapshot)
    /\ sess' = [NoSess EXCEPT !.produced = sess.produced]
    /\ UNCHANGED <<part, final, paused, cancelled, pc, loc, result, calls, hist,
                   size>>

\* VideoDownloader.load_state
load_state ==
    /\ pc = "idle"
    /\ state' = load(snapshot)
    /\ UNCHANGED <<part, final, snapshot, paused, cancelled, pc, loc, result,
                   calls, hist, sess, size>>

\* VideoDownloader.clear_state
clear_state ==
    /\ pc = "idle"
    /\ snapshot' = None
    /\ state' = None
    /\ UNCHANGED <<part, final, paused, cancelled, pc, loc, result, calls,
                   hist, sess, size>>

\* the final artifacts merge_downloaded collects: sorted(episodes) that exist
video_files(episodes) ==
    LET eps == sorted(episodes)
    IN SelectSeq(eps, LAMBDA ep : IsSome(final[ep]))

\* cli.merge_downloaded(downloader, merger, state.selected_episodes, ...):
\* available = merger.is_available(), merged = merger.merge_videos(...)
merge_downloaded(available, merged) ==
    /\ pc = "idle"
    /\ IsSome(state)
    /\ LET files == video_files(Get(state).selected_episodes)
           deleted == IF available /\ Len(files) >= 2 /\ merged
                      THEN Range(files) ELSE {}
       IN /\ final' = [e \in Episodes |-> IF e \in deleted THEN None ELSE final[e]]
          /\ sess' = [sess EXCEPT !.cleaned = @ \cup deleted,
                                  !.produced = @ \ deleted]
    /\ UNCHANGED <<part, state, snapshot, paused, cancelled, pc, loc, result,
                   calls, hist, size>>

\* ----------------------------------------------------- download_episode
\* the call ends: with True, with False, or with an exception leaving it
Finish(r) ==
    /\ pc' = "done"
    /\ result' = r

\* the source under study declares less than the body the engine will read:
\* a Content-Length that counts the compressed body which iter_content
\* decodes, or a Content-Range total below the end of the range it sends
understating == "server" \in DOMAIN app /\ app.server = "understating"

\* what the source can answer to a request carrying "Range: bytes=L-" (L > 0)
\* or no Range header (L = 0).  exc: session.get raises RequestException.
\* header: the Content-Length (200) or Content-Range (206) header, which
\* gives a number (the size of the resource, or less from an understating
\* source), is absent, or gives "*" for the total.
Responses(e, L) ==
    (IF understating
     THEN {[exc |-> FALSE, status_code |-> HTTP_OK, header |-> "low"]}
          \cup (IF L > 0 /\ L < size[e]
                THEN {[exc |-> FALSE, status_code |-> HTTP_PARTIAL,
                       header |-> "low"]}
                ELSE {})
     ELSE {})
    \cup
    {[exc |-> TRUE, status_code |-> 0, header |-> "absent"]}
    \cup {[exc |-> FALSE, status_code |-> 404, header |-> "absent"]}
    \cup {[exc |-> FALSE, status_code |-> HTTP_OK, header |-> h] :
            h \in {"number", "absent"}}
    \cup (IF L > 0 /\ L < size[e]
          THEN {[exc |-> FALSE, status_code |-> HTTP_PARTIAL, header |-> h] :
                  h \in {"number", "absent", "star"}}
          ELSE {})
    \cup (IF L >= size[e]
          THEN {[exc |-> FALSE, status_code |-> 416, header |-> "absent"]}
          ELSE {})

\* lines 180-184: the total the headers of the response give, 0 for none
Declared(e, r) ==
    CASE r.header = "number" -> size[e]
      [] r.header = "low" -> size[e] - 1
      [] OTHER -> 0

\* the blocks the body of the response holds
Body(e, r, L) ==
    IF r.status_code = HTTP_PARTIAL THEN Drop(ServerContent(e), L)
    ELSE ServerContent(e)

\* mutant: the partial artifact is always recreated
mode_truncate(l) == "wb"

\* mutant: the partial artifact is always appended to
mode_append(l) == "ab"

\* 'ab' if downloaded_bytes > 0 and response.status_code == 206 else 'wb'
mode(l) ==
    IF l.downloaded_bytes > 0 /\ l.status_code = HTTP_PARTIAL THEN "ab" ELSE "wb"

\* mutant: the current episode is not recorded
WithCurrentEpisode_unset(s, e) == s

\* state.current_episode = episode_number, when a state is loaded
WithCurrentEpisode(s, e) ==
    IF IsSome(s) THEN Some([Get(s) EXCEPT !.current_episode = Some(e)]) ELSE s

\* mutant: the completed mark is made with the first progress record
WithProgress_marked(s, e, down, total) ==
    IF IsSome(s)
    THEN Some([Get(s) EXCEPT !.current_progress =
                                 Some(DownloadProgress(e, down, total)),
                             !.completed_episodes = Append(@, e)])
    ELSE s

\* state.current_progress = DownloadProgress(...), when a state is loaded
WithProgress(s, e, down, total) ==
    IF IsSome(s)
    THEN Some([Get(s) EXCEPT !.current_progress =
                                 Some(DownloadProgress(e, down, total))])
    ELSE s

\* mutant: the partial artifact is not measured
st_size_ignored(f) == 0

\* lines 155-158: temp_file.stat().st_size if temp_file.exists(), else 0
st_size(f) == IF IsSome(f) THEN Len(Get(f)) ELSE 0

\* mutant: every status is taken for content
accepted_any(status_code) == TRUE

\* lines 178-188: 206 and 200 carry content, any other status is an error
accepted(status_code) == status_code \in {HTTP_OK, HTTP_PARTIAL}

\* lines 152-198: size of the partial artifact, the request, the response
download_episode(e, saveOk) ==
    /\ pc = "idle"
    /\ calls < MaxCalls
    /\ calls' = calls + 1
    /\ LET L == st_size(part[e])
           s1 == WithCurrentEpisode(state, e)
       IN \E r \in Responses(e, L) :
          LET h1 == [NoHist EXCEPT !.part0 = part[e], !.final0 = final[e],
                                   !.state0 = state, !.range = L,
                                   !.status = r.status_code,
                                   !.snapshot0 = snapshot]
          IN
             CASE r.exc ->
                  \* except requests.RequestException: _save_state(); return False
                  /\ state' = s1
                  /\ loc' = [NoLoc EXCEPT !.episode = e, !.downloaded_bytes = L]
                  /\ IF saveOk \/ state = None
                     THEN /\ snapshot' = SavedState(s1, snapshot)
                          /\ hist' = [h1 EXCEPT !.fault = "network"]
                          /\ Finish("false")
                     ELSE /\ snapshot' = snapshot
                          /\ hist' = [h1 EXCEPT !.fault = "storage"]
                          /\ Finish("raised")
               [] ~r.exc /\ ~accepted(r.status_code) ->
                  \* print("Error: HTTP ..."); return False
                  /\ saveOk
                  /\ state' = s1
                  /\ snapshot' = snapshot
                  /\ loc' = [NoLoc EXCEPT !.episode = e, !.downloaded_bytes = L,
                                          !.status_code = r.status_code]
                  /\ hist' = h1
                  /\ Finish("false")
               [] ~r.exc /\ r.status_code = HTTP_PARTIAL /\ r.header = "star" ->
                  \* int('*') raises ValueError, which nothing catches
                  /\ saveOk
                  /\ state' = s1
                  /\ snapshot' = snapshot
                  /\ loc' = [NoLoc EXCEPT !.episode = e, !.downloaded_bytes = L,
                                          !.status_code = r.status_code]
                  /\ hist' = [h1 EXCEPT !.fault = "value"]
                  /\ Finish("raised")
               [] OTHER ->
                  LET total == Declared(e, r)
                      down == IF r.status_code = HTTP_PARTIAL THEN L ELSE 0
                      s2 == WithProgress(s1, e, down, total)
                  IN /\ state' = s2
                     /\ loc' = [NoLoc EXCEPT !.episode = e,
                                             !.downloaded_bytes = down,
                                             !.total_bytes = total,
                                             !.status_code = r.status_code,
                                             !.body = Body(e, r, L)]
                     /\ IF saveOk \/ state = None
                        THEN /\ snapshot' = SavedState(s2, snapshot)
                             /\ hist' = [h1 EXCEPT
                                           !.declared = total,
                                           !.progress0 =
                                               IF IsSome(s2)
                                               THEN Get(s2).current_progress
                                               ELSE None]
                             /\ pc' = "open"
                             /\ result' = "none"
                        ELSE /\ snapshot' = snapshot
                             /\ hist' = [h1 EXCEPT !.declared = total,
                                                   !.fault = "storage"]
                             /\ Finish("raised")
    /\ UNCHANGED <<part, final, paused, cancelled, sess, size>>

\* line 216: open(temp_file, mode)
open(ok) ==
    /\ pc = "open"
    /\ IF ok
       THEN /\ part' = [part EXCEPT ![loc.episode] =
                           IF mode(loc) = "ab" /\ IsSome(@) THEN @ ELSE Some(<<>>)]
            /\ pc' = "loop"
            /\ hist' = [hist EXCEPT !.opened = TRUE]
            /\ result' = result
       ELSE /\ part' = part
            /\ hist' = [hist EXCEPT !.fault = "storage"]
            /\ Finish("raised")
    /\ UNCHANGED <<final, state, snapshot, paused, cancelled, loc, calls, sess,
                   size>>

\* line 217: the next item of response.iter_content(chunk_size=CHUNK_SIZE).
\* how: "chunk" (the next CHUNK_SIZE blocks of the body), "empty" (an empty
\* chunk), "raise" (a RequestException while reading), "end" (the iterator is
\* exhausted: after the whole body, or early when the connection just stops)
next_chunk(how, saveOk) ==
    /\ pc = "loop"
    /\ CASE how = "chunk" ->
              /\ loc.body # <<>>
              /\ saveOk
              /\ LET n == IF Len(loc.body) < CHUNK_SIZE THEN Len(loc.body)
                          ELSE CHUNK_SIZE
                 IN /\ loc' = [loc EXCEPT !.chunk = SubSeq(loc.body, 1, n),
                                          !.body = Drop(loc.body, n)]
                    /\ hist' = [hist EXCEPT !.streamed =
                                   @ \o SubSeq(loc.body, 1, n)]
              /\ pc' = "chunk"
              /\ UNCHANGED <<snapshot, result>>
         [] how = "empty" ->
              /\ saveOk
              /\ loc' = [loc EXCEPT !.chunk = <<>>]
              /\ pc' = "chunk"
              /\ UNCHANGED <<snapshot, result, hist>>
         [] how = "raise" ->
              \* the file is closed; except RequestException: _save_state()
              /\ loc' = loc
              /\ IF saveOk \/ state = None
                 THEN /\ snapshot' = SavedState(state, snapshot)
                      /\ hist' = [hist EXCEPT !.fault = "network"]
                      /\ Finish("false")
                 ELSE /\ snapshot' = snapshot
                      /\ hist' = [hist EXCEPT !.fault = "storage"]
                      /\ Finish("raised")
         [] how = "end" ->
              /\ saveOk
              /\ loc' = loc
              /\ hist' = [hist EXCEPT !.ended =
                             IF loc.body = <<>> THEN "eof" ELSE "short"]
              /\ pc' = "rename"
              /\ UNCHANGED <<snapshot, result>>
    /\ UNCHANGED <<part, final, state, paused, cancelled, calls, sess, size>>

\* mutant: the chunk loop has no pause test
waiting_never(p, c) == FALSE

\* line 219: while self._paused and not self._cancelled
waiting(p, c) == p /\ ~c

\* mutant: a paused transfer does not look at the cancel flag
must_stop_unless_paused(p, c) == c /\ ~p

\* line 222: if self._cancelled
must_stop(p, c) == c

\* mutant: the chunk never reaches the file
write_lost(f, chunk) == f

\* line 229: f.write(chunk), on a file that is closed before the call ends
write(f, chunk) == Some(Get(f) \o chunk)

\* line 219-220: one round of the pause loop, time.sleep(0.1)
pause_wait ==
    /\ pc = "chunk"
    /\ waiting(paused, cancelled)
    /\ UNCHANGED vars

\* mutant: no checkpoint is ever due
checkpoint_due_never(since) == FALSE

\* bytes_since_last_update >= self.CHUNK_SIZE * 5
checkpoint_due(since) == since >= CHUNK_SIZE * CHECKPOINT_CHUNKS

\* lines 222-252: the cancel check, the write of the chunk, the checkpoint
handle_chunk(writeOk, saveOk) ==
    /\ pc = "chunk"
    /\ ~waiting(paused, cancelled)
    /\ IF must_stop(paused, cancelled)
       THEN \* self._save_state(); return False
            /\ writeOk
            /\ part' = part
            /\ state' = state
            /\ loc' = loc
            /\ IF saveOk \/ state = None
               THEN /\ snapshot' = SavedState(state, snapshot)
                    /\ hist' = [hist EXCEPT !.cancelSeen = TRUE]
                    /\ Finish("false")
               ELSE /\ snapshot' = snapshot
                    /\ hist' = [hist EXCEPT !.cancelSeen = TRUE,
                                            !.fault = "storage"]
                    /\ Finish("raised")
       ELSE IF loc.chunk = <<>>
       THEN \* "if chunk:" is false
            /\ writeOk /\ saveOk
            /\ pc' = "loop"
            /\ UNCHANGED <<part, state, snapshot, loc, hist, result>>
       ELSE IF ~writeOk
       THEN \* f.write raises OSError
            /\ saveOk
            /\ hist' = [hist EXCEPT !.fault = "storage"]
            /\ Finish("raised")
            /\ UNCHANGED <<part, state, snapshot, loc>>
       ELSE LET e == loc.episode
                down == loc.downloaded_bytes + Len(loc.chunk)
                since == loc.bytes_since_last_update + Len(loc.chunk)
                due == IsSome(state) /\ checkpoint_due(since)
                s1 == IF due THEN WithProgress(state, e, down, loc.total_bytes)
                      ELSE state
            IN /\ part' = [part EXCEPT ![e] = write(@, loc.chunk)]
               /\ state' = s1
               /\ IF due /\ ~saveOk
                  THEN /\ loc' = [loc EXCEPT !.downloaded_bytes = down,
                                             !.bytes_since_last_update = since,
                                             !.chunk = <<>>]
                       /\ snapshot' = snapshot
                       /\ hist' = [hist EXCEPT !.written = @ \o loc.chunk,
                                               !.fault = "storage"]
                       /\ Finish("raised")
                  ELSE /\ (due \/ saveOk)
                       /\ loc' = [loc EXCEPT !.downloaded_bytes = down,
                                             !.bytes_since_last_update =
                                                 IF due THEN 0 ELSE since,
                                             !.chunk = <<>>]
                       /\ snapshot' = IF due THEN SavedState(s1, snapshot)
                                      ELSE snapshot
                       /\ hist' = [hist EXCEPT !.written = @ \o loc.chunk]
                       /\ pc' = "loop"
                       /\ result' = result
    /\ UNCHANGED <<final, paused, cancelled, calls, sess, size>>

\* line 258: temp_file.rename(output_file)
rename(ok) ==
    /\ pc = "rename"
    /\ IF ok
       THEN /\ final' = [final EXCEPT ![loc.episode] = part[loc.episode]]
            /\ part' = [part EXCEPT ![loc.episode] = None]
            /\ sess' = [sess EXCEPT
                          !.renamed = IF IsSome(state) THEN @ \cup {loc.episode}
                                      ELSE @,
                          !.produced = @ \ {loc.episode}]
            /\ pc' = "mark"
            /\ UNCHANGED <<result, hist>>
       ELSE /\ hist' = [hist EXCEPT !.fault = "storage"]
            /\ Finish("raised")
            /\ UNCHANGED <<part, final, sess>>
    /\ UNCHANGED <<state, snapshot, paused, cancelled, loc, calls, size>>

\* mutant: the progress record survives the completion
Completed_keeps_progress(s, e) ==
    [s EXCEPT !.completed_episodes =
                  IF Contains(@, e) THEN @ ELSE Append(@, e),
              !.current_episode = None]

\* mutant: the episode is not added to the list
Completed_no_mark(s, e) ==
    [s EXCEPT !.current_episode = None, !.current_progress = None]

\* lines 262-265: the completed mark, current episode and progress cleared
Completed(s, e) ==
    [s EXCEPT !.completed_episodes =
                  IF Contains(@, e) THEN @ ELSE Append(@, e),
              !.current_episode = None,
              !.current_progress = None]

\* lines 260-268: mark as completed, save, return True
mark(saveOk) ==
    /\ pc = "mark"
    /\ LET e == loc.episode
           s1 == IF IsSome(state) THEN Some(Completed(Get(state), e)) ELSE state
       IN /\ state' = s1
          /\ IF saveOk \/ state = None
             THEN /\ saveOk
                  /\ snapshot' = SavedState(s1, snapshot)
                  /\ sess' = [sess EXCEPT
                                !.returnedTrue = IF IsSome(state) THEN @ \cup {e}
                                                 ELSE @,
                                !.produced = @ \cup {e}]
                  /\ hist' = hist
                  /\ Finish("true")
             ELSE /\ snapshot' = snapshot
                  /\ sess' = sess
                  /\ hist' = [hist EXCEPT !.fault = "storage"]
                  /\ Finish("raised")
    /\ UNCHANGED <<part, final, paused, cancelled, loc, calls, size>>

\* the caller takes the result; the call's frame is gone
return ==
    /\ pc = "done"
    /\ pc' = "idle"
    /\ loc' = NoLoc
    /\ hist' = NoHist
    /\ result' = "none"
    /\ UNCHANGED <<part, final, state, snapshot, paused, cancelled, calls, sess,
                   size>>

\* the process dies at any point and a new one starts on the same directory:
\* VideoDownloader.__init__ (state None, both flags False); the files stay
crash ==
    /\ pc' = "idle"
    /\ state' = None
    /\ paused' = FALSE
    /\ cancelled' = FALSE
    /\ loc' = NoLoc
    /\ hist' = NoHist
    /\ result' = "none"
    /\ UNCHANGED <<part, final, snapshot, calls, sess, size>>

\* the engine and the control plane leave the driver's variables alone
Aside == UNCHANGED <<drv, app>>

Next ==
    \/ pause /\ Aside
    \/ resume /\ Aside
    \/ cancel /\ Aside
    \/ reset /\ Aside
    \/ \E sel \in Selections : init_state(sel) /\ Aside
    \/ load_state /\ Aside
    \/ clear_state /\ Aside
    \/ \E available, merged \in BOOLEAN :
         merge_downloaded(available, merged) /\ Aside
    \/ \E e \in Episodes, saveOk \in BOOLEAN :
         download_episode(e, saveOk) /\ Aside
    \/ \E ok \in BOOLEAN : open(ok) /\ Aside
    \/ \E how \in {"chunk", "empty", "raise", "end"}, saveOk \in BOOLEAN :
         next_chunk(how, saveOk) /\ Aside
    \/ pause_wait
    \/ \E writeOk, saveOk \in BOOLEAN : handle_chunk(writeOk, saveOk) /\ Aside
    \/ \E ok \in BOOLEAN : rename(ok) /\ Aside
    \/ \E saveOk \in BOOLEAN : mark(saveOk) /\ Aside
    \/ return /\ Aside
    \/ crash /\ Aside

Spec == Init /\ [][Next]_vars

\* ------------------------------------------------- the transfer thread
\* One process in which the thread that runs download_episode is scheduled
\* again and again while the main thread calls the control operations: the
\* steps of a call in progress
Transfer ==
    \/ \E ok \in BOOLEAN : open(ok)
    \/ \E how \in {"chunk", "empty", "raise", "end"}, saveOk \in BOOLEAN :
         next_chunk(how, saveOk)
    \/ \E writeOk, saveOk \in BOOLEAN : handle_chunk(writeOk, saveOk)
    \/ \E ok \in BOOLEAN : rename(ok)
    \/ \E saveOk \in BOOLEAN : mark(saveOk)

FairNext ==
    \/ pause /\ Aside
    \/ resume /\ Aside
    \/ cancel /\ Aside
    \/ reset /\ Aside
    \/ \E sel \in Selections : init_state(sel) /\ Aside
    \/ \E e \in Episodes, saveOk \in BOOLEAN :
         download_episode(e, saveOk) /\ Aside
    \/ Transfer /\ Aside
    \/ pause_wait
    \/ return /\ Aside

\* a thread that can take a step of its call eventually takes one: a read
\* from the network ends with a chunk, with the end of the stream or, by
\* the request's timeout, with an error
FairSpec == Init /\ [][FairNext]_vars /\ WF_vars(Transfer /\ Aside)

\* ------------------------------------------- calls on a cancelled engine
\* cancel() has been called on the VideoDownloader and reset() never is:
\* every download_episode call starts, and runs, with the flag set
CancelledNext ==
    \/ cancel /\ Aside
    \/ pause /\ Aside
    \/ resume /\ Aside
    \/ \E sel \in Selections : init_state(sel) /\ Aside
    \/ \E e \in Episodes, saveOk \in BOOLEAN :
         cancelled /\ download_episode(e, saveOk) /\ Aside
    \/ Transfer /\ Aside
    \/ return /\ Aside

CancelledSpec == Init /\ [][CancelledNext]_vars

\* ------------------------------------------------- a long transfer
\* Episode 1 of a source whose resources are LongLen blocks long, so that a
\* transfer passes the checkpoint of lines 243-252; a transfer that was
\* cancelled is taken up again by a second call.
LongInit ==
    /\ part = [e \in Episodes |-> IF e = 1 THEN Some(<<StaleBlock>>) ELSE None]
    /\ final = [e \in Episodes |-> None]
    /\ state = None
    /\ snapshot = None
    /\ paused = FALSE
    /\ cancelled = FALSE
    /\ pc = "idle"
    /\ loc = NoLoc
    /\ result = "none"
    /\ calls = 0
    /\ hist = NoHist
    /\ sess = NoSess
    /\ size = [e \in Episodes |-> LongLen]
    /\ drv = NoDrv
    /\ app = NoApp

LongNext ==
    \/ cancel /\ Aside
    \/ reset /\ Aside
    \/ \E sel \in Selections : init_state(sel) /\ Aside
    \/ \E saveOk \in BOOLEAN : download_episode(1, saveOk) /\ Aside
    \/ Transfer /\ Aside
    \/ return /\ Aside

LongSpec == LongInit /\ [][LongNext]_vars

\* ------------------------------------------------- the progress callback
\* download_episode called with a progress_callback, against a source that
\* declares the size of its resources or understates it.  app records the
\* calls of the callback during the current download_episode call.

\* lines 230-240: the arguments of progress_callback after a chunk was
\* written; speed is since_bytes divided by the time elapsed since
\* start_time, which is set where bytes_since_last_update is set to 0
progress_callback(l, chunk) ==
    [downloaded_bytes |-> l.downloaded_bytes + Len(chunk),
     total_bytes |-> l.total_bytes,
     since_bytes |-> l.bytes_since_last_update + Len(chunk)]

ProgressInit ==
    /\ FirstRun
    /\ drv = NoDrv
    /\ app \in {[op |-> "none", server |-> sv, callbacks |-> <<>>] :
                  sv \in {"exact", "understating"}}

\* download_episode(episode_info, progress_callback=...)
request_with_callback(e, saveOk) ==
    /\ download_episode(e, saveOk)
    /\ app' = [app EXCEPT !.op = "download_episode", !.callbacks = <<>>]
    /\ drv' = drv

\* lines 222-252 with the callback of line 240, made when a chunk was written
chunk_with_callback(writeOk, saveOk) ==
    /\ handle_chunk(writeOk, saveOk)
    /\ app' = IF hist'.written # hist.written
              THEN [app EXCEPT !.callbacks =
                        Append(@, progress_callback(loc, loc.chunk))]
              ELSE app
    /\ drv' = drv

ProgressNext ==
    \/ cancel /\ Aside
    \/ reset /\ Aside
    \/ \E sel \in Selections : init_state(sel) /\ Aside
    \/ \E e \in Episodes, saveOk \in BOOLEAN : request_with_callback(e, saveOk)
    \/ \E ok \in BOOLEAN : open(ok) /\ Aside
    \/ \E how \in {"chunk", "empty", "raise", "end"}, saveOk \in BOOLEAN :
         next_chunk(how, saveOk) /\ Aside
    \/ \E writeOk, saveOk \in BOOLEAN : chunk_with_callback(writeOk, saveOk)
    \/ \E ok \in BOOLEAN : rename(ok) /\ Aside
    \/ \E saveOk \in BOOLEAN : mark(saveOk) /\ Aside
    \/ return /\ Aside

ProgressSpec == ProgressInit /\ [][ProgressNext]_vars

\* -------------------------------------------------------- the state store
\* DownloadState.save and DownloadState.load on one path, applied to the
\* session states of the data model and to files that were damaged after
\* they were saved.
Completions == {<<>>, <<1>>, <<2>>, <<1, 2>>, <<2, 1>>}

Progresses ==
    {None} \cup {Some(DownloadProgress(e, d, t)) :
                    e \in Episodes, d \in 0..ServerLen, t \in {0, ServerLen}}

States ==
    [selected_episodes : {sorted(sel) : sel \in Selections},
     completed_episodes : Completions,
     current_episode : {None} \cup {Some(e) : e \in Episodes},
     current_progress : Progresses]

\* the engine is not running
EngineAside ==
    UNCHANGED <<part, final, state, snapshot, paused, cancelled, pc, loc,
                result, calls, hist, sess, size, drv>>

StoreInit ==
    /\ FirstRun
    /\ drv = NoDrv
    /\ app \in {[op |-> "new", state |-> s, file |-> NoFile, origin |-> "none",
                 out |-> Returned(None)] : s \in States}

\* DownloadState.save(path): json.dump(asdict(self))
save_file ==
    /\ app.op = "new"
    /\ app' = [app EXCEPT !.op = "saved", !.origin = "save",
                          !.file = JsonObject(asdict(app.state))]
    /\ EngineAside

\* d without the key k
Without(d, k) == [x \in DOMAIN d \ {k} |-> d[x]]

\* what can happen to a saved file before it is loaded again
Damages == {"delete", "truncate", "array", "drop_required", "drop_optional",
            "extra", "progress_missing", "progress_extra", "progress_empty"}

Damaged(f, how) ==
    CASE how = "delete" -> NoFile
      [] how = "truncate" -> [kind |-> "text"]
      [] how = "array" -> [kind |-> "array"]
      [] how = "drop_required" -> JsonObject(Without(f.doc, "completed_episodes"))
      [] how = "drop_optional" -> JsonObject(Without(f.doc, "current_episode"))
      [] how = "extra" -> JsonObject(f.doc @@ [version |-> 1])
      [] how = "progress_missing" ->
           JsonObject([f.doc EXCEPT !.current_progress =
                          Some(Without(Get(@), "total_bytes"))])
      [] how = "progress_extra" ->
           JsonObject([f.doc EXCEPT !.current_progress =
                          Some(Get(@) @@ [speed |-> 0])])
      [] OTHER ->
           JsonObject([f.doc EXCEPT !.current_progress = Some(<<>>)])

\* the file is cut short by a crash in the middle of json.dump, or edited
damage(how) ==
    /\ app.op = "saved"
    /\ how \in {"progress_missing", "progress_extra"} =>
           IsSome(app.state.current_progress)
    /\ app' = [app EXCEPT !.op = "damaged", !.origin = how,
                          !.file = Damaged(app.file, how)]
    /\ EngineAside

\* DownloadState.load(path)
load_file ==
    /\ app.op \in {"new", "saved", "damaged"}
    /\ app' = [app EXCEPT !.op = "loaded", !.out = DownloadState_load(app.file)]
    /\ EngineAside

StoreNext ==
    \/ save_file
    \/ \E how \in Damages : damage(how)
    \/ load_file

StoreSpec == StoreInit /\ [][StoreNext]_vars

\* ------------------------------------------------------ a fresh session
\* init_state called on a VideoDownloader that has a session loaded or not,
\* in an output directory that holds the snapshot of an earlier session or
\* none.  app records the call: the selection given and what the snapshot
\* file held before.
SessionInit ==
    /\ part = [e \in Episodes |-> IF e = 1 THEN Some(<<StaleBlock>>) ELSE None]
    /\ final = [e \in Episodes |-> None]
    /\ snapshot \in {None} \cup {Some(asdict(s)) : s \in States}
    /\ state \in {None, load(snapshot)}
    /\ paused = FALSE
    /\ cancelled = FALSE
    /\ pc = "idle"
    /\ loc = NoLoc
    /\ result = "none"
    /\ calls = 0
    /\ hist = NoHist
    /\ sess = NoSess
    /\ size = [e \in Episodes |-> ServerLen]
    /\ drv = NoDrv
    /\ app = [op |-> "none", selected_episodes |-> <<>>, snapshot0 |-> None]

\* a driver starts a session on its selection (cli.py line 209,
\* gui.py line 472)
fresh_session(sel) ==
    /\ app.op = "none"
    /\ init_state(sel)
    /\ app' = [op |-> "init_state", selected_episodes |-> sel,
               snapshot0 |-> snapshot]
    /\ drv' = drv

\* the next process on the same directory: VideoDownloader(output_dir) and
\* load_state()
reopen ==
    /\ app.op = "init_state"
    /\ load_state
    /\ app' = [app EXCEPT !.op = "load_state"]
    /\ drv' = drv

SessionNext ==
    \/ \E sel \in Selections : fresh_session(sel)
    \/ reopen

SessionSpec == SessionInit /\ [][SessionNext]_vars

\* ------------------------------------------------------ the batch drivers
\* VideoDownloader.download_all and cli.download_episodes run the engine once
\* per episode of a list; cli.main starts download_episodes on a fresh or on
\* a resumed session.  drv holds the loop: the list, the position in it, the
\* two counters, and what the loop did (the episodes it resolved and handled,
\* whether it was left by break, whether it saw the cancelled flag).
\* the first statement of a loop over the list
Loop(name, episodes, s) ==
    [NoDrv EXCEPT !.loop = name, !.at = "head", !.episodes = episodes, !.i = 1,
                  !.calls0 = calls, !.run = drv.run + 1,
                  !.all_done0 = /\ IsSome(s)
                                /\ \A k \in DOMAIN episodes :
                                      Contains(Get(s).completed_episodes,
                                               episodes[k])]

\* no loop is running in this process
driver_free ==
    /\ pc = "idle"
    /\ drv.at \in {"none", "over", "aborted"}
    /\ drv.run < MaxRuns

\* mutant: nothing is ever skipped
already_completed_never(s, ep) == FALSE

\* "if self.state and ep in self.state.completed_episodes"
already_completed(s, ep) == IsSome(s) /\ Contains(Get(s).completed_episodes, ep)

\* get_remaining_episodes
get_remaining_episodes(s) ==
    IF IsSome(s)
    THEN SelectSeq(Get(s).selected_episodes,
                   LAMBDA ep : ~Contains(Get(s).completed_episodes, ep))
    ELSE <<>>

\* merge_downloaded line 317: merger.merge_videos was called and returned True
succeeded(episodes, available, merged) ==
    available /\ Len(video_files(episodes)) >= 2 /\ merged

\* mutant: the final artifacts are deleted whatever the merger returned
cleanup_always(episodes, available, merged) ==
    LET files == video_files(episodes)
    IN IF available /\ Len(files) >= 2 THEN Range(files) ELSE {}

\* the final artifacts merge_downloaded deletes after a successful merge
cleanup(episodes, available, merged) ==
    LET files == video_files(episodes)
    IN IF available /\ Len(files) >= 2 /\ merged THEN Range(files) ELSE {}

\* the list merge_downloaded hands to merger.merge_videos: nothing when the
\* merger is not available or fewer than two final artifacts exist
handed(episodes, available) ==
    LET files == video_files(episodes)
    IN IF available /\ Len(files) >= 2 THEN files ELSE <<>>

\* mutant: the loop goes on whatever the flag says
stops_never(c) == FALSE

\* line 294: if self._cancelled: break
stops(c) == c

\* line 307: if not self._cancelled: failed += 1
counts_failure(c) == ~c

\* the frame of the download_episode call is gone, the loop has its result
Returns ==
    /\ pc' = "idle"
    /\ loc' = NoLoc
    /\ hist' = NoHist
    /\ result' = "none"

\* a caller hands download_all a list of resolved episodes
download_all_start(episodes) ==
    /\ driver_free
    /\ drv' = Loop("download_all", episodes, state)
    /\ UNCHANGED <<part, final, state, snapshot, paused, cancelled, pc, loc,
                   result, calls, hist, sess, size, app>>

\* download_all lines 293-302: the head of one iteration
download_all_head ==
    /\ drv.loop = "download_all" /\ drv.at = "head" /\ pc = "idle"
    /\ IF drv.i > Len(drv.episodes)
       THEN drv' = [drv EXCEPT !.at = "over"]
       ELSE IF stops(cancelled)
       THEN drv' = [drv EXCEPT !.at = "over", !.broke = TRUE,
                               !.cancel_seen = TRUE]
       ELSE IF already_completed(state, drv.episodes[drv.i])
       THEN drv' = [drv EXCEPT !.successful = @ + 1, !.i = @ + 1,
                               !.handled = Append(@, drv.episodes[drv.i])]
       ELSE drv' = [drv EXCEPT !.at = "call"]
    /\ UNCHANGED <<part, final, state, snapshot, paused, cancelled, pc, loc,
                   result, calls, hist, sess, size, app>>

\* download_all lines 304-311: the result of download_episode is counted; an
\* exception that left download_episode leaves download_all as well
download_all_count ==
    /\ drv.loop = "download_all" /\ drv.at = "call" /\ pc = "done"
    /\ drv' = CASE result = "true" ->
                     [drv EXCEPT !.successful = @ + 1, !.i = @ + 1,
                                 !.at = "head",
                                 !.handled = Append(@, loc.episode)]
                [] result = "false" ->
                     [drv EXCEPT !.failed = IF counts_failure(cancelled)
                                            THEN @ + 1 ELSE @,
                                 !.cancel_seen = @ \/ cancelled,
                                 !.i = @ + 1, !.at = "head",
                                 !.handled = Append(@, loc.episode)]
                [] OTHER ->
                     [drv EXCEPT !.at = "aborted",
                                 !.handled = Append(@, loc.episode)]
    /\ Returns
    /\ UNCHANGED <<part, final, state, snapshot, paused, cancelled, calls, sess,
                   size, app>>

\* cli.download_episodes lines 239-254 and 262-271: the head of one
\* iteration (skip, or resolve the episode: found = the resolver returned an
\* EpisodeInfo), and after the last one the summary and the merge
download_episodes_head(found, skip_merge, available, merged) ==
    /\ drv.loop = "download_episodes" /\ drv.at = "head" /\ pc = "idle"
    /\ IF drv.i > Len(drv.episodes)
       THEN LET deleted == IF ~skip_merge /\ drv.successful > 0
                           THEN cleanup(drv.episodes, available, merged)
                           ELSE {}
            IN /\ final' = [e \in Episodes |->
                              IF e \in deleted THEN None ELSE final[e]]
               /\ sess' = [sess EXCEPT !.cleaned = @ \cup deleted,
                                       !.produced = @ \ deleted]
               /\ drv' = [drv EXCEPT
                            !.at = "over",
                            !.merged =
                                /\ ~skip_merge /\ drv.successful > 0
                                /\ succeeded(drv.episodes, available, merged),
                            !.merge_input =
                                IF ~skip_merge /\ drv.successful > 0
                                THEN handed(drv.episodes, available)
                                ELSE <<>>]
       ELSE /\ UNCHANGED <<final, sess>>
            /\ ~skip_merge /\ available /\ merged
            /\ IF already_completed(state, drv.episodes[drv.i])
               THEN /\ found
                    /\ drv' = [drv EXCEPT
                                 !.successful = @ + 1, !.i = @ + 1,
                                 !.handled = Append(@, drv.episodes[drv.i])]
               ELSE IF ~found
               THEN drv' = [drv EXCEPT
                              !.failed = @ + 1, !.i = @ + 1,
                              !.resolved = Append(@, drv.episodes[drv.i]),
                              !.handled = Append(@, drv.episodes[drv.i])]
               ELSE drv' = [drv EXCEPT
                              !.at = "call",
                              !.resolved = Append(@, drv.episodes[drv.i])]
    /\ UNCHANGED <<part, state, snapshot, paused, cancelled, pc, loc, result,
                   calls, hist, size, app>>

\* cli.download_episodes lines 257-260: the result of download_episode is
\* counted; an exception that left download_episode ends the program
download_episodes_count ==
    /\ drv.loop = "download_episodes" /\ drv.at = "call" /\ pc = "done"
    /\ drv' = CASE result = "true" ->
                     [drv EXCEPT !.successful = @ + 1, !.i = @ + 1,
                                 !.at = "head",
                                 !.handled = Append(@, loc.episode)]
                [] result = "false" ->
                     [drv EXCEPT !.failed = @ + 1, !.i = @ + 1, !.at = "head",
                                 !.handled = Append(@, loc.episode)]
                [] OTHER ->
                     [drv EXCEPT !.at = "aborted",
                                 !.handled = Append(@, loc.episode)]
    /\ Returns
    /\ UNCHANGED <<part, final, state, snapshot, paused, cancelled, calls, sess,
                   size, app>>

\* cli.main lines 185-220: a fresh session on the parsed selection
cli_fresh(sel) ==
    /\ driver_free
    /\ init_state(sel)
    /\ drv' = Loop("download_episodes", sorted(sel), state')
    /\ UNCHANGED app

\* cli.main lines 137-163 (--resume): load the snapshot; with nothing left to
\* download, merge and stop; otherwise download what is left
cli_resume(no_merge, available, merged) ==
    /\ driver_free
    /\ LET s1 == load(snapshot)
           remaining == get_remaining_episodes(s1)
           deleted == IF IsSome(s1) /\ remaining = <<>> /\ ~no_merge
                      THEN cleanup(Get(s1).selected_episodes, available, merged)
                      ELSE {}
       IN /\ state' = s1
          /\ final' = [e \in Episodes |-> IF e \in deleted THEN None ELSE final[e]]
          /\ sess' = [sess EXCEPT !.cleaned = @ \cup deleted,
                                  !.produced = @ \ deleted]
          /\ drv' = IF ~IsSome(s1) THEN [NoDrv EXCEPT !.run = drv.run + 1]
                    ELSE IF remaining = <<>>
                    THEN [Loop("resume", Get(s1).selected_episodes, s1)
                             EXCEPT !.at = "over",
                                    !.merged =
                                        /\ ~no_merge
                                        /\ succeeded(Get(s1).selected_episodes,
                                                     available, merged),
                                    !.merge_input =
                                        IF no_merge THEN <<>>
                                        ELSE handed(Get(s1).selected_episodes,
                                                    available)]
                    ELSE Loop("download_episodes", remaining, s1)
    /\ UNCHANGED <<part, snapshot, paused, cancelled, pc, loc, result, calls,
                   hist, size, app>>

\* download_episode, called by the loop for its current episode
loop_calls(e) == drv.at = "call" /\ e = drv.episodes[drv.i]

\* the process dies with its loop
restart == crash /\ drv' = [NoDrv EXCEPT !.run = drv.run] /\ UNCHANGED app

\* (the pause flag, which only delays a transfer, is left out of the batches)
BatchNext ==
    \/ cancel /\ Aside
    \/ reset /\ Aside
    \/ \E episodes \in Selections : download_all_start(episodes)
    \/ download_all_head
    \/ download_all_count
    \/ \E sel \in Selections : cli_fresh(sel)
    \/ \E no_merge, available, merged \in BOOLEAN :
         cli_resume(no_merge, available, merged)
    \/ \E found, skip_merge, available, merged \in BOOLEAN :
         download_episodes_head(found, skip_merge, available, merged)
    \/ download_episodes_count
    \/ \E e \in Episodes, saveOk \in BOOLEAN :
         loop_calls(e) /\ download_episode(e, saveOk) /\ Aside
    \/ \E ok \in BOOLEAN : open(ok) /\ Aside
    \/ \E how \in {"chunk", "empty", "raise", "end"}, saveOk \in BOOLEAN :
         next_chunk(how, saveOk) /\ Aside
    \/ \E writeOk, saveOk \in BOOLEAN : handle_chunk(writeOk, saveOk) /\ Aside
    \/ \E ok \in BOOLEAN : rename(ok) /\ Aside
    \/ \E saveOk \in BOOLEAN : mark(saveOk) /\ Aside
    \/ restart

BatchSpec == Init /\ [][BatchNext]_vars

\* ------------------------------------------ the control plane, observed
\* The four control operations called from another thread while a transfer
\* runs.  app records the calls: the operation called last, how many were
\* called, and for each flag the value the last operation that affects it set
\* (False from the constructor).
ControlInit ==
    /\ FirstRun
    /\ drv = NoDrv
    /\ app = [op |-> "none", n |-> 0, paused |-> FALSE, cancelled |-> FALSE]

\* the caller's record of a control operation
called(name, p, c) ==
    /\ app.n < MaxOps
    /\ app' = [op |-> name, n |-> app.n + 1, paused |-> p, cancelled |-> c]
    /\ UNCHANGED drv

ControlNext ==
    \/ pause /\ called("pause", TRUE, app.cancelled)
    \/ resume /\ called("resume", FALSE, app.cancelled)
    \/ cancel /\ called("cancel", app.paused, TRUE)
    \/ reset /\ called("reset", FALSE, FALSE)
    \/ \E sel \in Selections : init_state(sel) /\ Aside
    \/ \E e \in Episodes, saveOk \in BOOLEAN :
         download_episode(e, saveOk) /\ Aside
    \/ \E ok \in BOOLEAN : open(ok) /\ Aside
    \/ \E how \in {"chunk", "empty", "raise", "end"}, saveOk \in BOOLEAN :
         next_chunk(how, saveOk) /\ Aside
    \/ pause_wait
    \/ \E writeOk, saveOk \in BOOLEAN : handle_chunk(writeOk, saveOk) /\ Aside
    \/ \E ok \in BOOLEAN : rename(ok) /\ Aside
    \/ \E saveOk \in BOOLEAN : mark(saveOk) /\ Aside
    \/ return /\ Aside

ControlSpec == ControlInit /\ [][ControlNext]_vars

\* ------------------------------------------------- selection parsing
\* cli.parse_episode_range(episode_str, max_episode).  A string is a sequence
\* of characters; "x" stands for any character that is no digit, no dash, no
\* comma and no blank.
Digits == {"0", "1", "3"}
Alphabet == Digits \cup {"-", ",", "x"}
ALL == <<"a", "l", "l">>

Strings == UNION {[1..n -> Alphabet] : n \in 0..MaxStrLen}

DigitValue(c) == CASE c = "0" -> 0 [] c = "1" -> 1 [] OTHER -> 3

\* the position of the first c in s at or after position i, or Len(s) + 1
RECURSIVE find(_, _, _)
find(s, c, i) ==
    IF i > Len(s) THEN Len(s) + 1
    ELSE IF s[i] = c THEN i ELSE find(s, c, i + 1)

\* episode_str.split(',')
RECURSIVE split(_)
split(s) ==
    LET k == find(s, ",", 1)
    IN IF k > Len(s) THEN <<s>>
       ELSE <<SubSeq(s, 1, k - 1)>> \o split(SubSeq(s, k + 1, Len(s)))

\* the number of digits s starts with from position i on: what \d+ takes
RECURSIVE digit_run(_, _)
digit_run(s, i) ==
    IF i <= Len(s) /\ s[i] \in Digits THEN 1 + digit_run(s, i + 1) ELSE 0

\* int(...) of a string of digits
RECURSIVE int(_)
int(s) ==
    IF s = <<>> THEN 0
    ELSE 10 * int(SubSeq(s, 1, Len(s) - 1)) + DigitValue(s[Len(s)])

\* int(part) raises ValueError unless part is a non-empty string of digits
int_ok(s) == s # <<>> /\ digit_run(s, 1) = Len(s)

\* re.match(r'(\d+)-(\d+)', part): the match starts at the first character
\* and need not reach the last one.  <<>> when there is no match, otherwise
\* <<group(1), group(2)>>
match(s) ==
    LET n1 == digit_run(s, 1)
        n2 == digit_run(s, n1 + 2)
    IN IF n1 >= 1 /\ n1 + 1 <= Len(s) /\ s[n1 + 1] = "-" /\ n2 >= 1
       THEN <<SubSeq(s, 1, n1), SubSeq(s, n1 + 2, n1 + 1 + n2)>>
       ELSE <<>>

min(a, b) == IF a < b THEN a ELSE b
max(a, b) == IF a > b THEN a ELSE b

\* what one part of the string adds to the set "episodes"
part_episodes(s, max_episode) ==
    IF Contains(s, "-")
    THEN LET m == match(s)
         IN IF m # <<>>
            THEN LET start == max(1, min(int(m[1]), max_episode))
                     end == max(1, min(int(m[2]), max_episode))
                 IN start..end
            ELSE {}
    ELSE IF int_ok(s) /\ 1 <= int(s) /\ int(s) <= max_episode
         THEN {int(s)} ELSE {}

\* sorted(episodes) of a set of integers
RECURSIVE sorted_set(_)
sorted_set(S) ==
    IF S = {} THEN <<>>
    ELSE LET m == CHOOSE x \in S : \A y \in S : x <= y
         IN <<m>> \o sorted_set(S \ {m})

parse_episode_range(episode_str, max_episode) ==
    IF episode_str = ALL
    THEN [i \in 1..max_episode |-> i]
    ELSE LET parts == split(episode_str)
         IN sorted_set(UNION {part_episodes(parts[i], max_episode) :
                                 i \in DOMAIN parts})

ParseInit ==
    /\ FirstRun
    /\ drv = NoDrv
    /\ app \in {[op |-> "new", episode_str |-> str, max_episode |-> n,
                 out |-> <<>>] : str \in Strings \cup {ALL}, n \in 1..MaxTotal}

\* selected_episodes = parse_episode_range(args.episodes, total_episodes)
parse ==
    /\ app.op = "new"
    /\ app' = [app EXCEPT !.op = "parsed",
                          !.out = parse_episode_range(app.episode_str,
                                                      app.max_episode)]
    /\ EngineAside

ParseNext == parse

ParseSpec == ParseInit /\ [][ParseNext]_vars

\* the same with a series whose total_episodes may be 0 (parser.py takes
\* the count from the page's description, "0 ตอน" included)
ParseAnyInit ==
    /\ FirstRun
    /\ drv = NoDrv
    /\ app \in {[op |-> "new", episode_str |-> str, max_episode |-> n,
                 out |-> <<>>] : str \in Strings \cup {ALL}, n \in 0..MaxTotal}

ParseAnySpec == ParseAnyInit /\ [][ParseNext]_vars

\* ------------------------------------------------------------ artifact names
\* strings are sequences of characters; ord gives the code point Python
\* compares strings by
ord(c) ==
    CASE c = "." -> 46 [] c = "_" -> 95
      [] c = "0" -> 48 [] c = "1" -> 49 [] c = "2" -> 50 [] c = "3" -> 51
      [] c = "4" -> 52 [] c = "5" -> 53 [] c = "6" -> 54 [] c = "7" -> 55
      [] c = "8" -> 56 [] c = "9" -> 57
      [] c = "a" -> 97 [] c = "e" -> 101 [] c = "m" -> 109 [] c = "p" -> 112
      [] c = "r" -> 114 [] c = "t" -> 116

DecimalDigits == <<"0", "1", "2", "3", "4", "5", "6", "7", "8", "9">>

\* the decimal numeral of a natural number
RECURSIVE str(_)
str(n) == IF n < 10 THEN <<DecimalDigits[n + 1]>>
          ELSE str(n \div 10) \o <<DecimalDigits[(n % 10) + 1]>>

\* zero padding on the left up to a minimum width; longer numerals are kept
RECURSIVE zfill(_, _)
zfill(t, width) == IF Len(t) >= width THEN t ELSE zfill(<<"0">> \o t, width)

\* mutant: the number is cut to the two digits of the field
format_cut(episode) == zfill(str(episode % 100), 2)

\* the format field {episode:02d}
format_02d(episode) == zfill(str(episode), 2)

\* f"ep_{episode:02d}.mp4"
get_episode_filename(episode) ==
    <<"e", "p", "_">> \o format_02d(episode) \o <<".", "m", "p", "4">>

\* the position of the last "." of a name, 0 if it has none
rfind_dot(name) ==
    LET dots == {i \in DOMAIN name : name[i] = "."}
    IN IF dots = {} THEN 0 ELSE CHOOSE i \in dots : \A j \in dots : j <= i

\* Path.with_suffix: the last suffix of the name is replaced
with_suffix(name, suffix) ==
    LET d == rfind_dot(name)
    IN (IF d = 0 THEN name ELSE SubSeq(name, 1, d - 1)) \o suffix

\* output_file.with_suffix('.mp4.part')
temp_file(output_file) ==
    with_suffix(output_file, <<".", "m", "p", "4", ".", "p", "a", "r", "t">>)

\* s < t for Python strings: the first differing character decides, a
\* proper prefix comes first
str_lt(s, t) ==
    \E i \in 1..(Len(t)) :
        /\ i <= Len(s) + 1
        /\ \A j \in 1..(i - 1) : s[j] = t[j]
        /\ i = Len(s) + 1 \/ ord(s[i]) < ord(t[i])

\* sorted(output_path.glob("ep_*.mp4")) on a directory that holds the given
\* final artifacts
sorted_glob(names) ==
    LET files == CHOOSE q \in [1..Cardinality(names) -> names] :
                     Range(q) = names
    IN SortSeq(files, LAMBDA x, y : str_lt(x, y))

\* two episode numbers of a series of up to MaxNumber episodes
NameInit ==
    /\ FirstRun
    /\ drv = NoDrv
    /\ app \in {[op |-> "pick", a |-> a, b |-> b, output_file |-> <<>>,
                 temp_file |-> <<>>, video_files |-> <<>>] :
                   a \in 1..MaxNumber, b \in 1..MaxNumber}

\* download_episode lines 152-153 for each of the two episodes
name_artifacts ==
    /\ app.op = "pick"
    /\ app' = [app EXCEPT
                 !.op = "named",
                 !.output_file = <<get_episode_filename(app.a),
                                   get_episode_filename(app.b)>>,
                 !.temp_file = <<temp_file(get_episode_filename(app.a)),
                                 temp_file(get_episode_filename(app.b))>>]
    /\ EngineAside
    /\ drv' = drv

\* merge_existing_videos on a directory that holds the two final artifacts:
\* the list handed to the merger
merge_existing_videos ==
    /\ app.op = "named"
    /\ app' = [app EXCEPT
                 !.op = "merged",
                 !.video_files = sorted_glob(Range(app.output_file))]
    /\ EngineAside
    /\ drv' = drv

NameNext ==
    \/ name_artifacts
    \/ merge_existing_videos

NameSpec == NameInit /\ [][NameNext]_vars

\* ------------------------------------------------ the GUI and its thread
\* DownloaderGUI: the Tk main thread runs the button callbacks and
\* _process_messages one at a time; each download runs in a thread of its
\* own.  app holds is_downloading, the buttons' states, self.downloader (the
\* number of the VideoDownloader instance, 0 for None), the instances whose
\* pause and cancel flags are set, the download threads started so far
\* (where each one is, the episode it is at, how many it has, the instance
\* it works with, the terminal messages it has put) and the messages in
\* self.message_queue, each with the thread that put it.  A download_episode
\* call in progress is shown where it reads its flags: at the pause test of
\* line 219, a chunk in hand.

\* mutant: the Download button stays enabled during a download
update_button_states_open(is_downloading) ==
    IF is_downloading
    THEN [download_btn |-> "normal", pause_btn |-> "normal",
          resume_btn |-> "disabled", cancel_btn |-> "normal",
          resume_prev_btn |-> "disabled"]
    ELSE [download_btn |-> "normal", pause_btn |-> "disabled",
          resume_btn |-> "disabled", cancel_btn |-> "disabled",
          resume_prev_btn |-> "normal"]

\* _update_button_states
update_button_states(is_downloading) ==
    IF is_downloading
    THEN [download_btn |-> "disabled", pause_btn |-> "normal",
          resume_btn |-> "disabled", cancel_btn |-> "normal",
          resume_prev_btn |-> "disabled"]
    ELSE [download_btn |-> "normal", pause_btn |-> "disabled",
          resume_btn |-> "disabled", cancel_btn |-> "disabled",
          resume_prev_btn |-> "normal"]

\* DownloaderGUI.__init__ and the buttons as _create_main_tab makes them
GuiInit ==
    /\ FirstRun
    /\ drv = NoDrv
    /\ app = [is_downloading |-> FALSE,
              buttons |-> [download_btn |-> "normal", pause_btn |-> "disabled",
                           resume_btn |-> "disabled",
                           cancel_btn |-> "disabled",
                           resume_prev_btn |-> "normal"],
              downloader |-> 0, instances |-> 0, paused |-> {},
              cancelled |-> {}, threads |-> <<>>, message_queue |-> <<>>]

\* a click on Download: _start_download with series info fetched and n
\* episodes selected; init_state raising (ok false) ends the callback
start_download(n, ok) ==
    /\ app.buttons.download_btn = "normal"
    /\ app.instances < MaxInstances
    /\ Len(app.threads) < MaxThreads
    /\ LET d == app.instances + 1
       IN IF ~ok
          THEN app' = [app EXCEPT !.downloader = d, !.instances = d]
          ELSE app' = [app EXCEPT
                         !.downloader = d, !.instances = d,
                         !.is_downloading = TRUE,
                         !.buttons = update_button_states(TRUE),
                         !.threads = Append(@, [at |-> "head", i |-> 1,
                                                n |-> n, downloader |-> d,
                                                terminal |-> 0])]
    /\ EngineAside

\* a click on Resume Previous with a state file present: _resume_previous
resume_previous ==
    /\ app.buttons.resume_prev_btn = "normal"
    /\ app.instances < MaxInstances
    /\ app' = [app EXCEPT !.downloader = app.instances + 1,
                          !.instances = app.instances + 1]
    /\ EngineAside

\* a click on Pause: _pause_download
pause_download ==
    /\ app.buttons.pause_btn = "normal"
    /\ app.downloader # 0
    /\ app' = [app EXCEPT !.paused = @ \cup {app.downloader},
                          !.buttons.pause_btn = "disabled",
                          !.buttons.resume_btn = "normal"]
    /\ EngineAside

\* a click on Resume: _resume_download
resume_download ==
    /\ app.buttons.resume_btn = "normal"
    /\ app.downloader # 0
    /\ app' = [app EXCEPT !.paused = @ \ {app.downloader},
                          !.buttons.pause_btn = "normal",
                          !.buttons.resume_btn = "disabled"]
    /\ EngineAside

\* a click on Cancel: _cancel_download
cancel_download ==
    /\ app.buttons.cancel_btn = "normal"
    /\ app.downloader # 0
    /\ app.downloader \notin app.cancelled
    /\ app' = [app EXCEPT !.cancelled = @ \cup {app.downloader}]
    /\ EngineAside

\* _download_thread lines 490-528 and 542-549: the head of one iteration
\* (cancelled: break; skipped or not resolved: a message and continue; else
\* a message and the call of self.downloader.download_episode), and after
\* the loop the 'complete' message, the last statement of the thread
download_thread_head(k, found) ==
    /\ k \in DOMAIN app.threads
    /\ app.threads[k].at = "head"
    /\ LET t == app.threads[k]
       IN IF t.i > t.n \/ app.downloader \in app.cancelled
          THEN /\ found
               /\ app' = [app EXCEPT
                            !.threads[k].at = "ended",
                            !.threads[k].downloader = app.downloader,
                            !.threads[k].terminal = @ + 1,
                            !.message_queue = Append(@, <<"complete", k>>)]
          ELSE IF found
          THEN app' = [app EXCEPT
                         !.threads[k].at = "transfer",
                         !.threads[k].downloader = app.downloader,
                         !.message_queue = Append(@, <<"status", k>>)]
          ELSE app' = [app EXCEPT
                         !.threads[k].i = @ + 1,
                         !.threads[k].downloader = app.downloader,
                         !.message_queue = Append(@, <<"status", k>>)]
    /\ EngineAside

\* _download_thread lines 528-540 and 551-555: download_episode, not held
\* in its pause loop, returns and the 'progress' message follows, or an
\* exception leaves it and the thread ends with the 'error' message
download_thread_returns(k, raised) ==
    /\ k \in DOMAIN app.threads
    /\ app.threads[k].at = "transfer"
    /\ ~waiting(app.threads[k].downloader \in app.paused,
                app.threads[k].downloader \in app.cancelled)
    /\ IF raised
       THEN app' = [app EXCEPT
                      !.threads[k].at = "ended",
                      !.threads[k].terminal = @ + 1,
                      !.message_queue = Append(@, <<"error", k>>)]
       ELSE app' = [app EXCEPT
                      !.threads[k].at = "head",
                      !.threads[k].i = @ + 1,
                      !.message_queue = Append(@, <<"progress", k>>)]
    /\ EngineAside

\* mutant: every message ends the download
terminal_any(msg) == TRUE

\* lines 737-748: the messages that clear is_downloading
terminal(msg) == msg[1] \in {"complete", "error"}

\* _process_messages: every queued message is handled; 'complete' and
\* 'error' clear is_downloading and set the buttons
process_messages ==
    /\ app.message_queue # <<>>
    /\ IF \E i \in DOMAIN app.message_queue : terminal(app.message_queue[i])
       THEN app' = [app EXCEPT !.message_queue = <<>>,
                               !.is_downloading = FALSE,
                               !.buttons = update_button_states(FALSE)]
       ELSE app' = [app EXCEPT !.message_queue = <<>>]
    /\ EngineAside

\* the steps of the download threads
Worker ==
    \/ \E k \in 1..MaxThreads, found \in BOOLEAN : download_thread_head(k, found)
    \/ \E k \in 1..MaxThreads, raised \in BOOLEAN :
         download_thread_returns(k, raised)

GuiNext ==
    \/ \E n \in 1..MaxEpisode, ok \in BOOLEAN : start_download(n, ok)
    \/ resume_previous
    \/ pause_download
    \/ resume_download
    \/ cancel_download
    \/ Worker
    \/ process_messages

GuiSpec == GuiInit /\ [][GuiNext]_vars

\* a runnable download thread is scheduled, and root.after runs
\* _process_messages every 100 ms
GuiFairSpec ==
    GuiInit /\ [][GuiNext]_vars /\ WF_vars(Worker) /\ WF_vars(process_messages)

\* ------------------------------------------------------------ properties
\* the call has ended, by a return or by an exception
Ended == pc = "done"
ReturnedTrue == pc = "done" /\ result = "true"
ReturnedFalse == pc = "done" /\ result = "false"
completed_episodes == Range(Get(state).completed_episodes)
IsPrefix(s, t) == Len(s) <= Len(t) /\ s = SubSeq(t, 1, Len(s))
\* what the partial artifact held when the call started to write to it
Kept == IF hist.status = HTTP_PARTIAL /\ IsSome(hist.part0)
        THEN Get(hist.part0) ELSE <<>>

\* C1: when download_episode returns True with a session state loaded, the
\* final artifact exists, the partial artifact does not, the episode is in
\* completed_episodes, current_episode and current_progress are None, and the
\* snapshot on disk holds the same values.
C1_SuccessPostcondition ==
    (ReturnedTrue /\ IsSome(state)) =>
        LET e == loc.episode
        IN /\ IsSome(final[e])
           /\ ~IsSome(part[e])
           /\ e \in completed_episodes
           /\ Get(state).current_episode = None
           /\ Get(state).current_progress = None
           /\ IsSome(snapshot)
           /\ Contains(Get(snapshot).completed_episodes, e)
           /\ Get(snapshot).completed_episodes = Get(state).completed_episodes
           /\ Get(snapshot).current_episode = None
           /\ Get(snapshot).current_progress = None

C1_Witness == ReturnedTrue /\ IsSome(state)

\* C2 (as claimed): when download_episode returns True for a response that
\* declared a total size > 0, the final artifact has exactly that size,
\* however the body ended.
C2_DeclaredSizeOnSuccess ==
    (ReturnedTrue /\ hist.declared > 0) =>
        /\ IsSome(final[loc.episode])
        /\ Len(Get(final[loc.episode])) = hist.declared

\* C3 (as claimed): between calls, completed_episodes is exactly the set of
\* episodes whose final artifact is on disk and was produced by a
\* download_episode call that returned True.  Stated for the sessions in
\* which every completed mark was made by a call that returned True, so that
\* a call ended by an exception is not what refutes it.
C3_CompletedSetExact ==
    (pc = "idle" /\ IsSome(state)
                 /\ completed_episodes \subseteq sess.returnedTrue) =>
        completed_episodes =
            {e \in Episodes : IsSome(final[e]) /\ e \in sess.produced}

\* C3 (amended): within a session, completed_episodes holds every episode for
\* which download_episode returned True with the session state loaded, holds
\* only episodes whose partial artifact a call of the session renamed to the
\* final name, and the final artifact of each of them is on disk unless the
\* merge cleanup of the driver has deleted it.
C3_CompletedSetWithinSession ==
    (pc = "idle" /\ IsSome(state)) =>
        /\ sess.returnedTrue \subseteq completed_episodes
        /\ completed_episodes \subseteq sess.renamed
        /\ \A e \in completed_episodes : IsSome(final[e]) \/ e \in sess.cleaned

C3_Witness ==
    /\ pc = "idle" /\ IsSome(state)
    /\ completed_episodes = Episodes
    /\ sess.cleaned = Episodes
    /\ \A e \in Episodes : ~IsSome(final[e])

\* C4: a call that found a partial artifact of L > 0 blocks, got 206 and was
\* streamed the rest of the resource (the disk taking every write) returns
\* True; the final artifact is the
\* old partial artifact followed by the streamed blocks in order, and its
\* size is the total the Content-Range header declared.
C4_ResumeCorrectness ==
    (Ended /\ hist.status = HTTP_PARTIAL /\ hist.range > 0
           /\ hist.ended = "eof" /\ hist.fault = "none") =>
        LET e == loc.episode
        IN /\ result = "true"
           /\ IsSome(final[e])
           /\ Get(final[e]) = Get(hist.part0) \o hist.streamed
           /\ SubSeq(Get(final[e]), 1, hist.range) = Get(hist.part0)
           /\ Drop(Get(final[e]), hist.range) = Drop(ServerContent(e), hist.range)
           /\ hist.declared > 0 => Len(Get(final[e])) = hist.declared

C4_Witness ==
    /\ ReturnedTrue /\ hist.status = HTTP_PARTIAL /\ hist.range > 0
    /\ hist.declared > 0
    /\ Get(hist.part0) = <<StaleBlock>>

\* C5: a call that found a partial artifact of L > 0 blocks and got 200 with
\* the full content (the disk taking every write) returns True and produces
\* the final artifact a call without any partial
\* artifact produces: exactly the streamed content, with no block of the
\* discarded partial artifact, and the recorded downloaded count starts at 0.
C5_FallbackRestart ==
    (Ended /\ hist.status = HTTP_OK /\ hist.range > 0
           /\ hist.ended = "eof" /\ hist.fault = "none") =>
        LET e == loc.episode
        IN /\ result = "true"
           /\ final[e] = Some(ServerContent(e))
           /\ final[e] = Some(hist.streamed)
           /\ StaleBlock \notin Range(Get(final[e]))
           /\ loc.downloaded_bytes = Len(ServerContent(e))
           /\ IsSome(hist.progress0) =>
                  Get(hist.progress0).downloaded_bytes = 0

C5_Witness ==
    /\ ReturnedTrue /\ hist.status = HTTP_OK /\ hist.range > 0
    /\ Get(hist.part0) = <<StaleBlock>>
    /\ IsSome(hist.progress0)

\* C6 (as claimed): whatever fails inside download_episode, the call returns
\* False; no exception leaves it.
C6_NoFaultEscapes ==
    (Ended /\ hist.fault # "none") => result = "false"

\* C7: when download_episode returns False, the final artifact is what it
\* was before the call, completed_episodes is what it was before the call,
\* and the partial artifact holds the blocks written so far (after the kept
\* ones on a 206), or is what it was if the call never opened it.
C7_FailurePostcondition ==
    ReturnedFalse =>
        LET e == loc.episode
        IN /\ final[e] = hist.final0
           /\ IsSome(state) =>
                  Get(state).completed_episodes =
                      Get(hist.state0).completed_episodes
           /\ IF hist.opened
              THEN part[e] = Some(Kept \o hist.written)
              ELSE part[e] = hist.part0

C7_Witness ==
    /\ ReturnedFalse /\ hist.opened /\ hist.written # <<>>
    /\ IsSome(state)

\* C8 (as claimed): after any download_episode call returns, True or False,
\* current_episode and current_progress are None in memory and in the
\* snapshot.
C8_ClearedAfterReturn ==
    (Ended /\ result \in {"true", "false"} /\ IsSome(state)) =>
        /\ Get(state).current_episode = None
        /\ Get(state).current_progress = None
        /\ IsSome(snapshot) =>
              /\ Get(snapshot).current_episode = None
              /\ Get(snapshot).current_progress = None

\* C8 (amended): after download_episode returns True both fields are None
\* in memory and in the snapshot; after it returns False current_episode
\* still names the episode of the call, and when the call had accepted a 200
\* or 206 response current_progress is a record of that episode and the
\* snapshot holds both fields as memory does.
C8_ClearedOnSuccessOnly ==
    (Ended /\ IsSome(state)) =>
        /\ result = "true" =>
              /\ Get(state).current_episode = None
              /\ Get(state).current_progress = None
              /\ Get(snapshot).current_episode = None
              /\ Get(snapshot).current_progress = None
        /\ result = "false" =>
              /\ Get(state).current_episode = Some(loc.episode)
              /\ hist.opened =>
                    /\ IsSome(Get(state).current_progress)
                    /\ Get(Get(state).current_progress).episode = loc.episode
                    /\ snapshot = Some(asdict(Get(state)))

C8_Witness == ReturnedFalse /\ IsSome(state) /\ hist.opened

\* C9: when the cancel flag is set while a chunk is in hand, the step that
\* handles the chunk ends the call with False, writes nothing to the partial
\* artifact and leaves the final artifact alone (a step that fails to save
\* the snapshot aside).
C9_CancelStopsAtChunk ==
    [][(pc = "chunk" /\ cancelled /\ pc' \notin {"chunk", "idle"}
            /\ hist'.fault = "none") =>
          /\ pc' = "done"
          /\ result' = "false"
          /\ part' = part
          /\ final' = final
          /\ hist'.written = hist.written
          /\ hist'.cancelSeen]_vars

C9_Witness ==
    /\ ReturnedFalse /\ hist.cancelSeen
    /\ loc.chunk # <<>>
    /\ hist.written # <<>>
    /\ hist.streamed = hist.written \o loc.chunk
    /\ part[loc.episode] = Some(Kept \o hist.written)

\* C10 (as claimed): a call that finds a partial artifact left by an
\* interrupted call, against a source that honours ranges (206 inside the
\* resource, an error status at or beyond its end) and with no further
\* fault, returns True with a final artifact equal to the source's content.
C10_ReinvocationSucceeds ==
    (Ended /\ hist.range > 0
           /\ IsPrefix(Get(hist.part0), ServerContent(loc.episode))
           /\ hist.status \in {HTTP_PARTIAL, 416}
           /\ hist.fault = "none" /\ ~hist.cancelSeen
           /\ hist.ended # "short") =>
        /\ result = "true"
        /\ final[loc.episode] = Some(ServerContent(loc.episode))
\* the file no longer is what save wrote
Malformed == {"array", "drop_required", "drop_optional", "extra",
              "progress_missing", "progress_extra", "progress_empty"}

\* C11 (as claimed): DownloadState.load never raises; it returns None when
\* there is no file, when the file is not JSON and when the file is JSON of
\* the wrong structure; a value it returns is a fully structured state.
C11_LoadNeverRaises ==
    (app.op = "loaded") =>
        /\ ~app.out.raised
        /\ app.origin \in (Malformed \cup {"none", "delete", "truncate"}) =>
               app.out.value = None
        /\ IsSome(app.out.value) => Get(app.out.value) \in States

\* C12: load after save on the same path returns a state equal to the saved
\* one field by field, whether or not it has a current episode and a current
\* progress, and the current progress is a DownloadProgress record again.
C12_SnapshotRoundTrip ==
    (app.op = "loaded" /\ app.origin = "save") =>
        /\ app.out = Returned(Some(app.state))
        /\ Get(app.out.value) \in States
        /\ \A k \in StateFields : Get(app.out.value)[k] = app.state[k]
        /\ IsSome(app.state.current_progress) =>
               Get(Get(app.out.value).current_progress).cls = "DownloadProgress"

C12_Witness ==
    /\ app.op = "loaded" /\ app.origin = "save"
    /\ app.out = Returned(Some(app.state))
    /\ IsSome(app.state.current_episode)
    /\ IsSome(app.state.current_progress)
    /\ app.state.completed_episodes # <<>>
\* C13 (as claimed): in every reachable session state completed_episodes is
\* a subset of selected_episodes.
C13_CompletedWithinSelected ==
    IsSome(state) =>
        completed_episodes \subseteq Range(Get(state).selected_episodes)

\* both fields are present and name the same episode, or one is absent
Agree(s) ==
    (IsSome(s.current_episode) /\ IsSome(s.current_progress)) =>
        Get(s.current_progress).episode = Get(s.current_episode)

\* C14 (as claimed): in memory and in the snapshot, whenever current_episode
\* and current_progress are both present, current_progress.episode equals
\* current_episode.
C14_ProgressNamesCurrentEpisode ==
    /\ IsSome(state) => Agree(Get(state))
    /\ IsSome(snapshot) => Agree(Get(snapshot))
\* the episodes the snapshot on disk lists as completed
persisted_completed ==
    IF IsSome(snapshot) THEN Range(Get(snapshot).completed_episodes) ELSE {}

\* C15: at every step of download_episode, and so after a crash at any step,
\* the snapshot on disk lists as completed only episodes whose final artifact
\* is on disk (the artifacts the merge cleanup of the driver deleted aside);
\* while the call is writing or about to rename, the snapshot does not list
\* its episode unless the episode was marked before the call; once the rename is done the
\* final artifact holds every block written and the partial artifact is gone.
C15_CommitOrdering ==
    /\ \A e \in persisted_completed : IsSome(final[e]) \/ e \in sess.cleaned
    /\ pc \in {"open", "loop", "chunk", "rename"} =>
           (loc.episode \in persisted_completed =>
               \E before \in {hist.snapshot0, hist.state0} :
                   /\ IsSome(before)
                   /\ Contains(Get(before).completed_episodes, loc.episode))
    /\ pc = "mark" =>
           /\ final[loc.episode] = Some(Kept \o hist.written)
           /\ ~IsSome(part[loc.episode])

\* a process died between the rename and the completed mark
C15_Witness ==
    /\ pc = "idle" /\ state = None /\ IsSome(snapshot)
    /\ \E e \in Episodes :
          /\ Get(snapshot).current_episode = Some(e)
          /\ IsSome(Get(snapshot).current_progress)
          /\ IsSome(final[e])
          /\ ~IsSome(part[e])
          /\ e \notin persisted_completed
          /\ sess.cleaned = {}
\* the tokens of the selection syntax, read off the text of the token
IsInteger(t) == t # <<>> /\ \A i \in DOMAIN t : t[i] \in Digits
IsRange(t) ==
    \E k \in DOMAIN t :
        /\ t[k] = "-"
        /\ IsInteger(SubSeq(t, 1, k - 1))
        /\ IsInteger(SubSeq(t, k + 1, Len(t)))
Clamp(n, total) == IF n < 1 THEN 1 ELSE IF n > total THEN total ELSE n

\* the episodes a token stands for
Selected(t, total) ==
    {n \in 1..total :
        \/ IsInteger(t) /\ int(t) = n
        \/ /\ IsRange(t)
           /\ \E k \in DOMAIN t :
                 /\ t[k] = "-"
                 /\ Clamp(int(SubSeq(t, 1, k - 1)), total) <= n
                 /\ n <= Clamp(int(SubSeq(t, k + 1, Len(t))), total)}

\* C16 (as claimed): the list parse_episode_range returns is ascending and
\* free of duplicates, and holds exactly: 1..max for the string 'all';
\* otherwise, over the comma-separated tokens, the clamped inclusive range of
\* a token 'a-b', the value of a single integer within 1..max, and nothing
\* for any other token.
C16_SelectionParsing ==
    (app.op = "parsed") =>
        LET out == app.out
            total == app.max_episode
            tokens == split(app.episode_str)
        IN /\ \A i, j \in DOMAIN out : i < j => out[i] < out[j]
           /\ Range(out) =
                 IF app.episode_str = ALL THEN 1..total
                 ELSE UNION {Selected(tokens[i], total) : i \in DOMAIN tokens}
\* a loop over a list whose episodes were all completed when it started
AllDone == drv.all_done0 /\ drv.loop # "none"
Counting == drv.loop \in {"download_all", "download_episodes"}

\* C17 (as claimed): a driver run on a session whose episodes are all
\* completed resolves nothing, calls download_episode for nothing, and
\* counts every episode as successful.
C17_IdempotentResume ==
    AllDone =>
        /\ calls = drv.calls0 /\ drv.resolved = <<>> /\ pc = "idle"
        /\ (drv.at = "over" /\ Counting) =>
               drv.successful = Len(drv.episodes) /\ drv.failed = 0

\* C17 (amended): such a run resolves nothing and calls download_episode for
\* nothing; download_all counts every episode as successful unless it finds
\* the cancelled flag set, in which case it stops and counts only the
\* episodes it had skipped before; the --resume path counts nothing.
C17_IdempotentResumeUnlessCancelled ==
    AllDone =>
        /\ calls = drv.calls0 /\ drv.resolved = <<>> /\ pc = "idle"
        /\ drv.failed = 0
        /\ (drv.at = "over" /\ Counting /\ ~drv.broke) =>
               /\ drv.successful = Len(drv.episodes)
               /\ drv.handled = drv.episodes
        /\ drv.broke =>
               /\ drv.loop = "download_all" /\ drv.cancel_seen
               /\ drv.successful = drv.i - 1
               /\ drv.successful < Len(drv.episodes)
        /\ drv.loop = "resume" => drv.successful = 0 /\ drv.at = "over"

C17_Witness ==
    /\ AllDone /\ drv.loop = "download_all" /\ drv.at = "over"
    /\ Len(drv.episodes) = 2 /\ drv.successful = 2 /\ drv.handled = drv.episodes
    /\ calls = drv.calls0

\* C18 (as claimed): a loop of download_all (the cancelled flag never seen
\* set) or of cli download_episodes always reaches its end, after handling
\* every episode of the list once and in order, with successful + failed
\* equal to the length of the list.
C18_BatchIsolation ==
    (Counting /\ ~drv.cancel_seen) =>
        /\ drv.at # "aborted"
        /\ drv.at = "over" =>
               /\ drv.handled = drv.episodes
               /\ drv.successful + drv.failed = Len(drv.episodes)

\* C19: in download_all, an iteration that finds the cancelled flag set
\* leaves the loop: no further episode is handled and no download_episode
\* call is started; a transfer that returned False is counted neither as
\* successful nor as failed when the flag is set as its result is taken.
C19_CancelEndsBatch ==
    [][(drv.loop = "download_all" /\ drv'.loop = "download_all"
            /\ drv' # drv /\ cancelled) =>
          /\ drv.at = "head" =>
                /\ drv'.at = "over"
                /\ drv'.handled = drv.handled
                /\ drv'.i = drv.i
                /\ calls' = calls /\ pc' = "idle"
          /\ (drv.at = "call" /\ result = "false") =>
                /\ drv'.successful = drv.successful
                /\ drv'.failed = drv.failed
          /\ drv'.at # "call"]_vars

\* the transfer of the first episode was cancelled: it is not counted, and
\* the second episode is never handled
C19_Witness ==
    /\ drv.loop = "download_all" /\ drv.at = "over" /\ drv.broke
    /\ Len(drv.episodes) = 2 /\ drv.i = 2 /\ Len(drv.handled) = 1
    /\ drv.successful = 0 /\ drv.failed = 0
    /\ calls = drv.calls0 + 1
\* C20: is_paused() and is_cancelled() always are what the last operation
\* that affects each flag set (pause: paused; resume: not paused; cancel:
\* cancelled; reset: neither), whatever the transfer does meanwhile; and a
\* control operation changes nothing of the session state, the snapshot, the
\* artifacts or the running call.
C20_ControlPlane ==
    /\ [](paused = app.paused /\ cancelled = app.cancelled)
    /\ [][app'.n # app.n =>
            /\ UNCHANGED <<part, final, state, snapshot, pc, loc, result>>
            /\ app'.op \in {"pause", "resume"} => cancelled' = cancelled
            /\ app'.op = "cancel" => paused' = paused]_vars

\* paused, then cancelled while the transfer holds a chunk, then un-paused:
\* the cancellation is still there
C20_Witness ==
    /\ app.n = 3 /\ app.op = "resume"
    /\ ~paused /\ cancelled
    /\ pc = "chunk"

\* C21 (as claimed): while paused is set and cancelled is not, a step of an
\* active download_episode call appends nothing to the partial artifact
\* and does not end the call (a step on which the disk fails aside).
C21_PausedCallStandsStill ==
    [][(paused /\ ~cancelled /\ paused' /\ ~cancelled'
            /\ pc \notin {"idle", "done"} /\ pc' # "idle"
            /\ result' # "raised") =>
          /\ hist'.written = hist.written
          /\ pc' # "done"]_vars

\* C21 (amended): a call that stands at the pause test with a chunk read,
\* paused set and cancelled not, stays there and changes neither artifact
\* nor its own variables; the step that lets the chunk through appends
\* exactly the chunk it was holding; and a call that returns True leaves a
\* final artifact made of what it kept of the partial artifact followed by
\* every streamed chunk, once and in order.
C21_PauseLoopHoldsChunk ==
    /\ [](ReturnedTrue =>
            final[loc.episode] = Some(Kept \o hist.streamed))
    /\ [][(pc = "chunk" /\ paused /\ ~cancelled) =>
             /\ pc' \in {"chunk", "idle"}
             /\ pc' = "chunk" =>
                   /\ part' = part /\ final' = final
                   /\ loc' = loc /\ hist' = hist /\ result' = result]_vars
    /\ [][(pc = "chunk" /\ pc' = "loop") =>
             /\ part'[loc.episode] =
                    Some(Get(part[loc.episode]) \o loc.chunk)
             /\ hist'.written = hist.written \o loc.chunk]_vars

\* a transfer waits in the pause loop with a chunk in hand, after it wrote
\* an earlier one
C21_Witness ==
    /\ pc = "chunk" /\ paused /\ ~cancelled
    /\ loc.chunk # <<>>
    /\ hist.written # <<>>
    /\ hist.streamed = hist.written \o loc.chunk

\* C22: get_episode_filename gives distinct positive episode numbers
\* distinct final artifact names, and their partial artifact names, each
\* the final name followed by ".part", are distinct as well.
C22_NamesNeverCollide ==
    app.op \in {"named", "merged"} =>
        /\ \A i \in {1, 2} :
              app.temp_file[i] =
                  app.output_file[i] \o <<".", "p", "a", "r", "t">>
        /\ app.a # app.b =>
              /\ app.output_file[1] # app.output_file[2]
              /\ app.temp_file[1] # app.temp_file[2]
              /\ app.output_file[1] # app.temp_file[2]

\* episodes 7 and 70 are named ep_07.mp4 and ep_70.mp4
C22_Witness ==
    /\ app.op = "named" /\ app.a = 7 /\ app.b = 70
    /\ app.output_file[1] = <<"e", "p", "_", "0", "7", ".", "m", "p", "4">>
    /\ app.output_file[2] = <<"e", "p", "_", "7", "0", ".", "m", "p", "4">>
    /\ app.temp_file[1] =
           <<"e", "p", "_", "0", "7", ".", "m", "p", "4",
             ".", "p", "a", "r", "t">>

\* C23: for two episode numbers a < b the final artifact name of a sorts
\* before the name of b as a string, and merge_existing_videos hands the
\* merger the artifact of a before the artifact of b.
C23_LexicalOrderIsNumeric ==
    /\ (app.op \in {"named", "merged"} /\ app.a < app.b) =>
           str_lt(app.output_file[1], app.output_file[2])
    /\ (app.op = "merged" /\ app.a < app.b) =>
           app.video_files = app.output_file

\* C24: the list a driver hands to the merger is in strictly ascending
\* episode order, and each entry is the final artifact of an episode of the
\* loop's list for which download_episode has returned True in the current
\* session (since init_state, across --resume).
C24_MergeOnlyReportedEpisodes ==
    /\ \A i, j \in DOMAIN drv.merge_input :
          i < j => drv.merge_input[i] < drv.merge_input[j]
    /\ \A i \in DOMAIN drv.merge_input :
          /\ Contains(drv.episodes, drv.merge_input[i])
          /\ drv.merge_input[i] \in sess.returnedTrue

\* C25: in every reachable state of the output directory no episode has
\* both its partial artifact and its final artifact.
C25_PartialXorFinal ==
    \A e \in Episodes : ~(IsSome(part[e]) /\ IsSome(final[e]))

\* C26: a call whose response status is neither 200 nor 206 has returned
\* False with its very first step: it never opened the partial artifact,
\* wrote nothing, the partial and the final artifact of the episode are
\* what they were before the call, and so is the snapshot on disk.
C26_ErrorStatusLeavesAllAsItWas ==
    (pc # "idle" /\ hist.status \notin {0, 200, 206}) =>
        /\ pc = "done"
        /\ result = "false"
        /\ ~hist.opened
        /\ hist.written = <<>>
        /\ part[loc.episode] = hist.part0
        /\ final[loc.episode] = hist.final0
        /\ snapshot = hist.snapshot0

\* a 404 for an episode that has a partial artifact, in a persisted session
C26_Witness ==
    /\ ReturnedFalse /\ hist.status = 404
    /\ hist.part0 = Some(<<StaleBlock>>)
    /\ IsSome(hist.snapshot0)
    /\ IsSome(state) /\ Get(state).current_episode = Some(loc.episode)

\* C27: at most one download thread runs at any time; while one runs
\* is_downloading is set and self.downloader is the instance the thread
\* works with (it transfers one episode at a time with that instance); a
\* thread is started only when every earlier thread has ended and its
\* terminal message has been processed.
C27_OneTransferAtATime ==
    /\ [](LET running == {k \in DOMAIN app.threads :
                            app.threads[k].at # "ended"}
          IN /\ Cardinality(running) <= 1
             /\ \A k \in running :
                   /\ app.is_downloading
                   /\ app.threads[k].downloader = app.downloader)
    /\ [][Len(app'.threads) > Len(app.threads) =>
             /\ ~app.is_downloading
             /\ app.message_queue = <<>>
             /\ \A k \in DOMAIN app.threads : app.threads[k].at = "ended"]_vars

\* the second download of a run transfers its second episode after the
\* first download has ended and Resume Previous replaced the instance
C27_Witness ==
    /\ Len(app.threads) = 2
    /\ app.threads[1].at = "ended"
    /\ app.threads[2].at = "transfer" /\ app.threads[2].i = 2
    /\ app.instances = 3
    /\ app.downloader = app.threads[2].downloader

\* C28: after init_state the session in memory has the given selection in
\* ascending order, no completed episode, no current episode and no
\* progress record; the snapshot file holds exactly that session whatever
\* it held before, and the next process loads it back.
C28_InitStateFreshSession ==
    app.op \in {"init_state", "load_state"} =>
        /\ IsSome(state)
        /\ LET s == Get(state)
               sel == app.selected_episodes
           IN /\ Len(s.selected_episodes) = Len(sel)
              /\ Range(s.selected_episodes) = Range(sel)
              /\ \A i, j \in DOMAIN s.selected_episodes :
                    i < j => s.selected_episodes[i] <= s.selected_episodes[j]
              /\ s.completed_episodes = <<>>
              /\ s.current_episode = None
              /\ s.current_progress = None
              /\ snapshot = Some(asdict(s))

\* init_state([2, 1]) over the snapshot of a session that had completed
\* episodes and a progress record
C28_Witness ==
    /\ app.op = "init_state"
    /\ app.selected_episodes = <<2, 1>>
    /\ IsSome(app.snapshot0)
    /\ Get(app.snapshot0).completed_episodes = <<1, 2>>
    /\ IsSome(Get(app.snapshot0).current_progress)
    /\ Get(state).selected_episodes = <<1, 2>>

\* C29: a call that returned False after opening the partial artifact
\* leaves in it what it kept followed by exactly the chunks it wrote (and
\* leaves it untouched when it never opened it); every call asks for the
\* range that starts at the size the partial artifact has when the call
\* starts, whatever the persisted progress record says; and on a 206 answer
\* the blocks streamed are the blocks of the resource from that offset on,
\* appended after the ones already on disk.
C29_ResumeAtBytesOnDisk ==
    /\ (ReturnedFalse /\ hist.opened) =>
           part[loc.episode] = Some(Kept \o hist.written)
    /\ (ReturnedFalse /\ ~hist.opened) => part[loc.episode] = hist.part0
    /\ pc # "idle" =>
           hist.range = IF IsSome(hist.part0) THEN Len(Get(hist.part0)) ELSE 0
    /\ (pc # "idle" /\ hist.status = HTTP_PARTIAL) =>
           /\ IsPrefix(hist.streamed,
                       Drop(ServerContent(loc.episode), hist.range))
           /\ IsPrefix(hist.written, hist.streamed)
           /\ (hist.opened /\ IsSome(part[loc.episode])) =>
                  Get(part[loc.episode]) = Get(hist.part0) \o hist.written

\* the second call for episode 2 finds the one block the stopped first call
\* wrote, while the persisted progress record still says 0, asks for the
\* range from 1 and completes the episode with the content of the source
C29_Witness ==
    /\ calls = 2 /\ ReturnedTrue /\ loc.episode = 2
    /\ hist.part0 = Some(<<Block(2, 1)>>)
    /\ hist.range = 1 /\ hist.status = HTTP_PARTIAL
    /\ IsSome(hist.snapshot0)
    /\ IsSome(Get(hist.snapshot0).current_progress)
    /\ Get(Get(hist.snapshot0).current_progress).downloaded_bytes = 0
    /\ final[2] = Some(ServerContent(2))

\* C30 (as claimed): under fairness of the transfer thread, a call in
\* progress with paused and cancelled both set eventually ends.
C30_CancelledCallReturns ==
    (pc \notin {"idle", "done"} /\ paused /\ cancelled) ~> (pc = "done")

\* C30 (amended): a call that stands at the pause test with paused and
\* cancelled both set leaves it without resume(): its next step ends the
\* call with False and writes nothing (a step that fails to save the
\* snapshot aside); and under fairness of the transfer thread a call in
\* progress with both flags set eventually ends, unless reset() clears the
\* cancel flag first.
C30_CancelUnblocksPause ==
    /\ [][(pc = "chunk" /\ paused /\ cancelled /\ pc' # "chunk"
              /\ hist'.fault = "none") =>
             /\ paused'
             /\ pc' = "done" /\ result' = "false"
             /\ part' = part /\ final' = final]_vars
    /\ (pc \notin {"idle", "done"} /\ paused /\ cancelled)
           ~> (pc = "done" \/ ~cancelled)

\* a call ended with False at a chunk it was holding, with paused still set
C30_Witness ==
    /\ ReturnedFalse /\ hist.cancelSeen
    /\ paused /\ cancelled
    /\ loc.chunk # <<>>
    /\ hist.streamed = hist.written \o loc.chunk

\* C31: a download_episode call made with the cancelled flag set ends with
\* False, and the partial artifact the episode had before the call keeps
\* exactly its blocks, whatever the source answers (calls that end by an
\* exception of the disk aside).
C31_CancelledBeforeCall ==
    (pc # "idle" /\ result # "raised") =>
        /\ cancelled
        /\ Ended => result = "false"
        /\ IsSome(hist.part0) => part[loc.episode] = hist.part0

\* C32: a call whose request or whose read of the stream fails with a
\* network error has ended with False at that very step; the partial
\* artifact holds what the call kept and every chunk it wrote (it is
\* untouched if the call never opened it), the final artifact is as it was,
\* a loaded session state is on disk as it is in memory; and a call makes
\* one request only: its offset and its response never change while it runs.
C32_NetworkFailure ==
    /\ [](hist.fault = "network" =>
            /\ pc = "done" /\ result = "false"
            /\ final[loc.episode] = hist.final0
            /\ part[loc.episode] = IF hist.opened
                                   THEN Some(Kept \o hist.written)
                                   ELSE hist.part0
            /\ IsSome(state) => snapshot = Some(asdict(Get(state))))
    /\ [][(pc # "idle" /\ pc' # "idle") =>
             /\ calls' = calls
             /\ hist'.range = hist.range
             /\ hist'.status = hist.status]_vars

\* the read fails after one chunk was appended to the leftover block, with
\* a session loaded
C32_Witness ==
    /\ ReturnedFalse /\ hist.fault = "network"
    /\ hist.status = HTTP_PARTIAL
    /\ hist.written # <<>>
    /\ part[loc.episode] = Some(<<StaleBlock>> \o hist.written)
    /\ IsSome(state)

\* C33: at every chunk boundary of a transfer with a session state, the
\* snapshot on disk holds a progress record of the episode whose
\* downloaded_bytes is at most the size of the partial artifact and less
\* than 5 * CHUNK_SIZE behind it: the bytes written since the last
\* checkpoint never reach 5 * CHUNK_SIZE without being persisted.
C33_CheckpointWindow ==
    (pc = "loop" /\ IsSome(state)) =>
        LET e == loc.episode
            p == Get(snapshot).current_progress
            written == Len(Get(part[e]))
        IN /\ IsSome(snapshot) /\ IsSome(p)
           /\ Get(p).episode = e
           /\ Get(p).downloaded_bytes <= written
           /\ written - Get(p).downloaded_bytes < 5 * CHUNK_SIZE
           /\ written - Get(p).downloaded_bytes = loc.bytes_since_last_update

\* the checkpoint after five blocks appended to the leftover block
C33_Witness ==
    /\ pc = "loop" /\ IsSome(state)
    /\ hist.status = HTTP_PARTIAL /\ hist.range = 1
    /\ IsSome(snapshot) /\ IsSome(Get(snapshot).current_progress)
    /\ Get(Get(snapshot).current_progress).downloaded_bytes = 6
    /\ Len(Get(part[1])) = 6
    /\ loc.bytes_since_last_update = 0

\* a progress record or a callback keeps downloaded within a known total
Bounded(r) == r.total_bytes > 0 => r.total_bytes >= r.downloaded_bytes

\* C34: in every current_progress record, in memory and on disk, and in
\* every call of the progress callback, total_bytes >= downloaded_bytes
\* whenever total_bytes > 0.
C34_TotalBoundsDownloaded ==
    /\ (IsSome(state) /\ IsSome(Get(state).current_progress)) =>
           Bounded(Get(Get(state).current_progress))
    /\ (IsSome(snapshot) /\ IsSome(Get(snapshot).current_progress)) =>
           Bounded(Get(Get(snapshot).current_progress))
    /\ \A i \in DOMAIN app.callbacks : Bounded(app.callbacks[i])

\* C35: the callback is called once for each chunk written, with the
\* total of the transfer and a cumulative count that grows from call to
\* call, and the bytes its throughput is computed from are only those
\* received since the previous callback.
C35_CallbackWindow ==
    (app.op = "download_episode" /\ pc # "idle") =>
        /\ Len(app.callbacks) * CHUNK_SIZE = Len(hist.written)
        /\ \A i \in DOMAIN app.callbacks :
              LET before == IF i = 1 THEN Len(Kept)
                            ELSE app.callbacks[i - 1].downloaded_bytes
              IN /\ app.callbacks[i].total_bytes = hist.declared
                 /\ app.callbacks[i].downloaded_bytes > before
                 /\ app.callbacks[i].since_bytes =
                        app.callbacks[i].downloaded_bytes - before

\* the session record names a current episode whenever it holds a progress
\* record
Alongside(s) == IsSome(s.current_progress) => IsSome(s.current_episode)

\* C36: in every session state in memory and in every snapshot on disk,
\* current_progress is present only when current_episode is.
C36_ProgressOnlyWithCurrentEpisode ==
    /\ IsSome(state) => Alongside(Get(state))
    /\ IsSome(snapshot) => Alongside(Get(snapshot))

\* a transfer of episode 2 in progress, its first progress record on disk
C36_Witness ==
    /\ pc = "loop" /\ loc.episode = 2
    /\ IsSome(state) /\ IsSome(snapshot)
    /\ Get(snapshot).current_episode = Some(2)
    /\ IsSome(Get(snapshot).current_progress)
    /\ Get(Get(snapshot).current_progress).episode = 2
    /\ snapshot = Some(asdict(Get(state)))

\* a download thread is held in the pause loop
Held ==
    \E k \in DOMAIN app.threads :
        /\ app.threads[k].at = "transfer"
        /\ app.threads[k].downloader \in app.paused
        /\ app.threads[k].downloader \notin app.cancelled

\* what C37 says of every state and every step: a thread has put one
\* terminal message when it has ended and none before, no message of a
\* thread follows its terminal message in the queue, a step of a thread
\* leaves is_downloading, the buttons and self.downloader alone, and
\* is_downloading is cleared only by processing a terminal message
TerminalMessages ==
    /\ [](/\ \A k \in DOMAIN app.threads :
                app.threads[k].terminal =
                    IF app.threads[k].at = "ended" THEN 1 ELSE 0
          /\ \A i, j \in DOMAIN app.message_queue :
                (i < j /\ app.message_queue[i][2] = app.message_queue[j][2])
                    => ~(app.message_queue[i][1] \in {"complete", "error"}))
    /\ [][(app'.threads # app.threads
              /\ Len(app'.threads) = Len(app.threads)) =>
             /\ app'.is_downloading = app.is_downloading
             /\ app'.buttons = app.buttons
             /\ app'.downloader = app.downloader]_vars
    /\ [][(app.is_downloading /\ ~app'.is_downloading) =>
             /\ \E i \in DOMAIN app.message_queue :
                   app.message_queue[i][1] \in {"complete", "error"}
             /\ app'.message_queue = <<>>]_vars

\* C37 (as claimed): the above, and after every started download
\* is_downloading eventually returns to False.
C37_DownloadEventuallyEnds ==
    /\ TerminalMessages
    /\ app.is_downloading ~> ~app.is_downloading

\* C37 (amended): the above, and after every started download
\* is_downloading eventually returns to False unless the transfer is held
\* in the pause loop.
C37_DownloadEndsUnlessPaused ==
    /\ TerminalMessages
    /\ app.is_downloading ~> (~app.is_downloading \/ Held)

\* a download that was cancelled has ended with its 'complete' message still
\* in the queue, behind the messages the thread put before
C37_Witness ==
    /\ app.is_downloading
    /\ Len(app.threads) = 1 /\ app.threads[1].at = "ended"
    /\ app.downloader \in app.cancelled
    /\ Len(app.message_queue) >= 2
    /\ app.message_queue[Len(app.message_queue)] = <<"complete", 1>>

\* the final artifacts a step deletes
Deleted == {e \in Episodes : IsSome(final[e]) /\ ~IsSome(final'[e])}

\* a driver passes its merge step: the end of cli.download_episodes, or
\* --resume with nothing left to download
MergeStep ==
    /\ drv'.at = "over"
    /\ \/ drv'.loop = "download_episodes" /\ drv.at = "head"
       \/ drv'.loop = "resume" /\ drv'.run # drv.run

\* C38: final artifacts are deleted only in a merge step in which the merger
\* returned success, and then exactly the files handed to the merger are
\* deleted; a merge step that was skipped or failed leaves every final
\* artifact as it was, and no merge step changes the persisted session
\* state (nor, at the end of download_episodes, the state in memory).
C38_CleanupOnlyAfterMerge ==
    [][/\ Deleted # {} =>
            /\ MergeStep
            /\ drv'.merged
            /\ Deleted = Range(drv'.merge_input)
       /\ MergeStep =>
            /\ snapshot' = snapshot
            /\ drv'.loop = "download_episodes" => state' = state
            /\ ~drv'.merged => final' = final
            /\ part' = part]_vars

\* a merge of two episodes succeeded and both final artifacts are gone
C38_Witness ==
    /\ drv.at = "over" /\ drv.merged
    /\ Len(drv.merge_input) = 2
    /\ \A i \in 1..2 : final[drv.merge_input[i]] = None
    /\ IsSome(snapshot)

\* C39: when download_episode returns True or False with a session state
\* loaded, the persisted snapshot holds the values of the state in memory.
C39_SnapshotAgreesOnReturn ==
    (Ended /\ result \in {"true", "false"} /\ IsSome(state)) =>
        snapshot = Some(asdict(Get(state)))

\* C40: every number parse_episode_range returns lies in 1..max_episode,
\* for every selection string and every max_episode >= 0.
C40_ParsedWithinRange ==
    app.op = "parsed" =>
        \A i \in DOMAIN app.out : app.out[i] \in 1..app.max_episode

====
